---- MODULE Spec2Model ----
(***************************************************************************)
(* A model of the gpiod line request life cycle: a Chip hands out a Line   *)
(* or Lines request over one of the two kernel ABI generations, and the    *)
(* request is read, written, reconfigured, queried and closed.             *)
(*                                                                         *)
(* The kernel side of the character device (the ioctls reached through the *)
(* uapi package) is modelled from the behaviour pinned down by the uapi    *)
(* tests; the library side is modelled from gpiod.go.                      *)
(***************************************************************************)
EXTENDS Integers, Sequences, FiniteSets, TLC

\* Number of lines of the chip (the first mockup chip of the uapi tests).
ChipLines == 4

\* Largest number of lines in one request explored by the model.
MaxLines == 2

Offsets == 0 .. (ChipLines - 1)

Min(a, b) == IF a < b THEN a ELSE b

\* s[:n] of Go, for n possibly larger than len(s).
Take(s, n) == SubSeq(s, 1, Min(n, Len(s)))

\* The elements of a sequence.
Range(s) == {s[i] : i \in 1 .. Len(s)}

\* Position of offset o in the offset list s (o occurs in s).
IndexOf(s, o) == CHOOSE i \in 1 .. Len(s) : s[i] = o

(***************************************************************************)
(* Errors.                                                                 *)
(***************************************************************************)
Nil == "nil"
ErrClosed == "ErrClosed"
ErrPermissionDenied == "ErrPermissionDenied"
ErrInvalidOffset == "ErrInvalidOffset"
EINVAL == "EINVAL"
EPERM == "EPERM"
EBADF == "EBADF"
EIO == "EIO"
EBUSY == "EBUSY"

(***************************************************************************)
(* LineConfig: the flags say which of the fields apply.  The zero value of *)
(* each field is the first of its enumeration.                             *)
(***************************************************************************)
LineDirectionInput == "Input"
LineDirectionOutput == "Output"
LineDrivePushPull == "PushPull"
LineDriveOpenDrain == "OpenDrain"
LineDriveOpenSource == "OpenSource"
LineBiasDisabled == "Disabled"
LineBiasPullUp == "PullUp"
LineBiasPullDown == "PullDown"
LineEdgeNone == "None"
LineEdgeRising == "Rising"
LineEdgeFalling == "Falling"
LineEdgeBoth == "Both"

LineConfig ==
    [Flags |-> {}, Direction |-> LineDirectionInput, Drive |-> LineDrivePushPull,
     Bias |-> LineBiasDisabled, EdgeDetection |-> LineEdgeNone, Debounce |-> 0]

\* LineOptions as built by RequestLines and Reconfigure; eh is whether an
\* event handler was given.
LineOptions(config, values, abi) ==
    [Config |-> config, values |-> values, abi |-> abi, eh |-> FALSE, consumer |-> ""]

(***************************************************************************)
(* Options.  Each option overlays the fields it names onto the options     *)
(* being built and leaves every other field alone.                         *)
(***************************************************************************)
AsIs == [opt |-> "AsIs", values |-> <<>>, label |-> ""]
AsInput == [opt |-> "AsInput", values |-> <<>>, label |-> ""]
AsOutput(vs) == [opt |-> "AsOutput", values |-> vs, label |-> ""]
AsActiveLow == [opt |-> "AsActiveLow", values |-> <<>>, label |-> ""]
AsActiveHigh == [opt |-> "AsActiveHigh", values |-> <<>>, label |-> ""]
AsOpenDrain == [opt |-> "AsOpenDrain", values |-> <<>>, label |-> ""]
AsOpenSource == [opt |-> "AsOpenSource", values |-> <<>>, label |-> ""]
AsPushPull == [opt |-> "AsPushPull", values |-> <<>>, label |-> ""]
WithPullUp == [opt |-> "WithPullUp", values |-> <<>>, label |-> ""]
WithPullDown == [opt |-> "WithPullDown", values |-> <<>>, label |-> ""]
WithBiasDisabled == [opt |-> "WithBiasDisabled", values |-> <<>>, label |-> ""]
WithFallingEdge == [opt |-> "WithFallingEdge", values |-> <<>>, label |-> ""]
WithRisingEdge == [opt |-> "WithRisingEdge", values |-> <<>>, label |-> ""]
WithBothEdges == [opt |-> "WithBothEdges", values |-> <<>>, label |-> ""]
WithABI(n) == [opt |-> "WithABI", values |-> <<n>>, label |-> ""]
WithConsumer(s) == [opt |-> "WithConsumer", values |-> <<>>, label |-> s]

SetDirection(lo, d) ==
    [lo EXCEPT !.Config.Flags = @ \cup {"Direction"}, !.Config.Direction = d]

SetDrive(lo, d) ==
    [lo EXCEPT !.Config.Flags = @ \cup {"Drive"}, !.Config.Drive = d]

SetBias(lo, b) ==
    [lo EXCEPT !.Config.Flags = @ \cup {"Bias"}, !.Config.Bias = b]

\* Edge detection is defined on inputs, and comes with its handler.
SetEdge(lo, e) ==
    [SetDirection(lo, LineDirectionInput) EXCEPT
        !.Config.Flags = @ \cup {"EdgeDetection"},
        !.Config.EdgeDetection = e,
        !.eh = TRUE]

applyLineOption(lo, o) ==
    CASE o.opt = "AsIs" ->
            [lo EXCEPT !.Config.Flags = @ \ {"Direction"},
                       !.Config.Direction = LineDirectionInput]
      [] o.opt = "AsInput" -> SetDirection(lo, LineDirectionInput)
      [] o.opt = "AsOutput" ->
            [SetDirection(lo, LineDirectionOutput) EXCEPT !.values = o.values]
      [] o.opt = "AsActiveLow" -> [lo EXCEPT !.Config.Flags = @ \cup {"ActiveLow"}]
      [] o.opt = "AsActiveHigh" -> [lo EXCEPT !.Config.Flags = @ \ {"ActiveLow"}]
      [] o.opt = "AsOpenDrain" -> SetDrive(lo, LineDriveOpenDrain)
      [] o.opt = "AsOpenSource" -> SetDrive(lo, LineDriveOpenSource)
      [] o.opt = "AsPushPull" -> SetDrive(lo, LineDrivePushPull)
      [] o.opt = "WithPullUp" -> SetBias(lo, LineBiasPullUp)
      [] o.opt = "WithPullDown" -> SetBias(lo, LineBiasPullDown)
      [] o.opt = "WithBiasDisabled" -> SetBias(lo, LineBiasDisabled)
      [] o.opt = "WithFallingEdge" -> SetEdge(lo, LineEdgeFalling)
      [] o.opt = "WithRisingEdge" -> SetEdge(lo, LineEdgeRising)
      [] o.opt = "WithBothEdges" -> SetEdge(lo, LineEdgeBoth)
      [] o.opt = "WithABI" -> [lo EXCEPT !.abi = o.values[1]]
      [] o.opt = "WithConsumer" -> [lo EXCEPT !.consumer = o.label]

\* for _, option := range options { option.apply(&lo) }
RECURSIVE applyOptions(_, _)
applyOptions(lo, options) ==
    IF options = <<>> THEN lo
    ELSE applyOptions(applyLineOption(lo, Head(options)), Tail(options))

(***************************************************************************)
(* ABI codec: LineConfig to the ABI v1 handle and event flags.             *)
(***************************************************************************)
lineConfigToHandleFlags(lc) ==
    (IF "ActiveLow" \in lc.Flags THEN {"ActiveLow"} ELSE {})
    \cup
    (IF lc.Direction = LineDirectionOutput THEN {"Output"}
     ELSE IF lc.Direction = LineDirectionInput /\ "Direction" \in lc.Flags
          THEN {"Input"} ELSE {})
    \cup
    (IF lc.Drive = LineDriveOpenDrain THEN {"OpenDrain"}
     ELSE IF lc.Drive = LineDriveOpenSource THEN {"OpenSource"} ELSE {})
    \cup
    (IF lc.Bias = LineBiasPullUp THEN {"PullUp"}
     ELSE IF lc.Bias = LineBiasPullDown THEN {"PullDown"}
     ELSE IF lc.Bias = LineBiasDisabled /\ "Bias" \in lc.Flags
          THEN {"BiasDisable"} ELSE {})

lineConfigToEventFlag_Swapped(lc) ==
    IF lc.EdgeDetection = LineEdgeBoth THEN {"RisingEdge", "FallingEdge"}
    ELSE IF lc.EdgeDetection = LineEdgeRising THEN {"FallingEdge"}
    ELSE IF lc.EdgeDetection = LineEdgeFalling THEN {"RisingEdge"}
    ELSE {}

lineConfigToEventFlag(lc) ==
    IF lc.EdgeDetection = LineEdgeBoth THEN {"RisingEdge", "FallingEdge"}
    ELSE IF lc.EdgeDetection = LineEdgeRising THEN {"RisingEdge"}
    ELSE IF lc.EdgeDetection = LineEdgeFalling THEN {"FallingEdge"}
    ELSE {}

\* Decoding of an ABI v1 line info flag set.
lineInfoToLineConfig(flags) ==
    LET out == "IsOut" \in flags
        hasBias == flags \cap {"PullUp", "PullDown", "BiasDisable"} # {}
    IN  [Flags |-> (IF "ActiveLow" \in flags THEN {"ActiveLow"} ELSE {})
                   \cup {"Direction"}
                   \cup (IF out THEN {"Drive"} ELSE {})
                   \cup (IF hasBias THEN {"Bias"} ELSE {}),
         Direction |-> IF out THEN LineDirectionOutput ELSE LineDirectionInput,
         Drive |-> IF out /\ "OpenDrain" \in flags THEN LineDriveOpenDrain
                   ELSE IF out /\ "OpenSource" \in flags THEN LineDriveOpenSource
                   ELSE LineDrivePushPull,
         Bias |-> IF "PullUp" \in flags THEN LineBiasPullUp
                  ELSE IF "PullDown" \in flags THEN LineBiasPullDown
                  ELSE LineBiasDisabled,
         EdgeDetection |-> LineEdgeNone,
         Debounce |-> 0]

(***************************************************************************)
(* The kernel side of the character device.  A kernel state k holds the    *)
(* ABI generation it supports, the direction and physical level of every   *)
(* line, the attributes applied to the requested lines, and the table of   *)
(* request descriptors handed out.                                         *)
(***************************************************************************)
KAttrNone ==
    [ActiveLow |-> FALSE, Drive |-> LineDrivePushPull, Bias |-> "Unset",
     Edge |-> LineEdgeNone]

DriveFlags == {"OpenDrain", "OpenSource"}
BiasFlags == {"PullUp", "PullDown", "BiasDisable"}

\* Flag combinations the kernel accepts for a handle request or config.
ValidHandleFlags(f) ==
    /\ ~({"Input", "Output"} \subseteq f)
    /\ ~(DriveFlags \subseteq f)
    /\ (f \cap DriveFlags # {} => "Output" \in f)
    /\ Cardinality(f \cap BiasFlags) <= 1
    /\ (f \cap BiasFlags # {} => f \cap {"Input", "Output"} # {})

\* Handle flag combinations the kernel accepts for an event request.
ValidEventHandleFlags(f) ==
    /\ "Output" \notin f
    /\ f \cap DriveFlags = {}
    /\ Cardinality(f \cap BiasFlags) <= 1

HandleDir(f) ==
    IF "Output" \in f THEN LineDirectionOutput
    ELSE IF "Input" \in f THEN LineDirectionInput
    ELSE "AsIs"

HandleAttr(f, ef) ==
    [ActiveLow |-> "ActiveLow" \in f,
     Drive |-> IF "OpenDrain" \in f THEN LineDriveOpenDrain
               ELSE IF "OpenSource" \in f THEN LineDriveOpenSource
               ELSE LineDrivePushPull,
     Bias |-> IF "PullUp" \in f THEN LineBiasPullUp
              ELSE IF "PullDown" \in f THEN LineBiasPullDown
              ELSE IF "BiasDisable" \in f THEN LineBiasDisabled
              ELSE "Unset",
     Edge |-> IF ef = {"RisingEdge", "FallingEdge"} THEN LineEdgeBoth
              ELSE IF ef = {"RisingEdge"} THEN LineEdgeRising
              ELSE IF ef = {"FallingEdge"} THEN LineEdgeFalling
              ELSE LineEdgeNone]

\* The fields of an ABI v2 config that its flags mark as meaningful.
ConfigDir(c) == IF "Direction" \in c.Flags THEN c.Direction ELSE "AsIs"

ConfigAttr(c) ==
    [ActiveLow |-> "ActiveLow" \in c.Flags,
     Drive |-> IF "Drive" \in c.Flags THEN c.Drive ELSE LineDrivePushPull,
     Bias |-> IF "Bias" \in c.Flags THEN c.Bias ELSE "Unset",
     Edge |-> IF "EdgeDetection" \in c.Flags THEN c.EdgeDetection ELSE LineEdgeNone]

ValidConfigV2(c) ==
    LET a == ConfigAttr(c)
        d == ConfigDir(c)
    IN  /\ (a.Drive # LineDrivePushPull => d = LineDirectionOutput)
        /\ (a.Bias # "Unset" => d # "AsIs")
        /\ (a.Edge # LineEdgeNone => d = LineDirectionInput)

\* The i-th of the values given with a call; lines without a value are inactive.
ValueAt(vs, i) == IF i <= Len(vs) /\ vs[i] # 0 THEN 1 ELSE 0

\* Physical level of an active state, and back.
Phys(activeLow, v) == IF activeLow THEN 1 - v ELSE v

Active(k, o) == Phys(k.attr.ActiveLow, k.level[o])

\* Descriptor fd is one the kernel handed out and has not been released.
FdOpen(k, fd) == fd \in 1 .. Len(k.fds) /\ k.fds[fd].open

\* Lines held by a live request.
Requested(k) == UNION {Range(k.fds[fd].offsets) : fd \in {i \in 1 .. Len(k.fds) : k.fds[i].open}}

\* The kernel applies direction, attributes and output values to the lines.
KApply(k, offsets, dir, attr, vs) ==
    [k EXCEPT
        !.dir = [o \in Offsets |->
                    IF o \in Range(offsets) /\ dir # "AsIs" THEN dir ELSE k.dir[o]],
        !.level = [o \in Offsets |->
                    IF o \in Range(offsets) /\ dir = LineDirectionOutput
                    THEN Phys(attr.ActiveLow, ValueAt(vs, IndexOf(offsets, o)))
                    ELSE k.level[o]],
        !.attr = attr]

KNewFd(k, type, offsets) ==
    [k EXCEPT !.fds = Append(@, [type |-> type, offsets |-> offsets, open |-> TRUE])]

KResult(k, err) == [k |-> k, err |-> err, fd |-> 0, vals |-> <<>>]

\* GPIO_GET_LINEHANDLE_IOCTL
KGetLineHandle(k, offsets, flags, vs, fault) ==
    IF fault THEN KResult(k, EIO)
    ELSE IF Len(offsets) = 0 \/ ~ValidHandleFlags(flags) THEN KResult(k, EINVAL)
    ELSE [KResult(KNewFd(KApply(k, offsets, HandleDir(flags), HandleAttr(flags, {}), vs),
                         "handle", offsets), Nil)
            EXCEPT !.fd = Len(k.fds) + 1]

\* GPIO_GET_LINEEVENT_IOCTL: one line, always an input.
KGetLineEvent(k, offset, hflags, eflags, fault) ==
    IF fault THEN KResult(k, EIO)
    ELSE IF ~ValidEventHandleFlags(hflags) THEN KResult(k, EINVAL)
    ELSE [KResult(KNewFd(KApply(k, <<offset>>, LineDirectionInput,
                                HandleAttr(hflags, eflags), <<>>),
                         "event", <<offset>>), Nil)
            EXCEPT !.fd = Len(k.fds) + 1]

\* The ABI v2 line request.
KGetLine(k, offsets, config, vs, fault) ==
    IF fault THEN KResult(k, EIO)
    ELSE IF k.abi # 2 \/ Len(offsets) = 0 \/ ~ValidConfigV2(config) THEN KResult(k, EINVAL)
    ELSE [KResult(KNewFd(KApply(k, offsets, ConfigDir(config), ConfigAttr(config), vs),
                         "line", offsets), Nil)
            EXCEPT !.fd = Len(k.fds) + 1]

\* The descriptor table ends at its highest open descriptor: the numbers of
\* closed descriptors are free again.
RECURSIVE KTrim(_)
KTrim(k) ==
    IF k.fds = <<>> \/ k.fds[Len(k.fds)].open THEN k
    ELSE KTrim([k EXCEPT !.fds = SubSeq(@, 1, Len(@) - 1)])

\* close(2) of a request descriptor.  A close of a number that is no open
\* descriptor of the request is recorded: the descriptor was released before.
KClose(k, fd) ==
    IF FdOpen(k, fd) THEN KTrim([k EXCEPT !.fds[fd].open = FALSE])
    ELSE [k EXCEPT !.stale = TRUE]

\* The edge a line makes when it arrives at its present state: rising to the
\* active state, falling to the inactive one.
EdgeOf(k, o) == IF Active(k, o) = 1 THEN LineEdgeRising ELSE LineEdgeFalling

\* The open descriptors that hold line o.
FdsOf(k, o) == {fd \in 1 .. Len(k.fds) : k.fds[fd].open /\ o \in Range(k.fds[fd].offsets)}

\* Line o changes level.  With edge detection for the edge it makes, the
\* kernel queues an event on the descriptor that holds the line; reported is
\* the history of the events queued.
KToggle(k, o) ==
    LET k1 == [k EXCEPT !.level[o] = 1 - @]
        e == [fd |-> CHOOSE fd \in FdsOf(k, o) : TRUE, offset |-> o, type |-> EdgeOf(k1, o)]
    IN  IF FdsOf(k, o) # {} /\ k.attr.Edge \in {e.type, LineEdgeBoth}
        THEN [k1 EXCEPT !.events = Append(@, e), !.reported = Append(@, e)]
        ELSE k1

\* read(2) of the next event by the watcher.  A read of a descriptor that was
\* released fails.
KReadEvent(k) ==
    IF FdOpen(k, Head(k.events).fd)
    THEN [k |-> [k EXCEPT !.events = Tail(@)], err |-> Nil, evt |-> Head(k.events)]
    ELSE [k |-> [k EXCEPT !.events = Tail(@)], err |-> EBADF, evt |-> Head(k.events)]

\* The chip device is opened once more, and such a file is closed.
KOpenChip(k) == [k EXCEPT !.chips = @ + 1]

KReleaseChip(k) == [k EXCEPT !.chips = @ - 1]

\* Active states of the lines of a descriptor, in request order.
KValues(k, fd) == [i \in 1 .. Len(k.fds[fd].offsets) |-> Active(k, k.fds[fd].offsets[i])]

\* GPIOHANDLE_GET_LINE_VALUES_IOCTL: on a handle or an event descriptor.
KGetLineValues(k, fd, fault) ==
    IF ~FdOpen(k, fd) THEN KResult(k, EBADF)
    ELSE IF fault THEN KResult(k, EIO)
    ELSE IF k.fds[fd].type \in {"handle", "event"}
         THEN [KResult(k, Nil) EXCEPT !.vals = KValues(k, fd)]
    ELSE KResult(k, EINVAL)

\* The ABI v2 get-values call: on a line descriptor only.
KGetLineValuesV2(k, fd, fault) ==
    IF ~FdOpen(k, fd) THEN KResult(k, EBADF)
    ELSE IF fault THEN KResult(k, EIO)
    ELSE IF k.fds[fd].type = "line"
         THEN [KResult(k, Nil) EXCEPT !.vals = KValues(k, fd)]
    ELSE KResult(k, EINVAL)

\* The lines of the descriptor take the values given, in request order.
KWrite(k, fd, vs) ==
    LET offsets == k.fds[fd].offsets
    IN  IF \E i \in 1 .. Len(offsets) : k.dir[offsets[i]] # LineDirectionOutput
        THEN KResult(k, EPERM)
        ELSE KResult([k EXCEPT !.level = [o \in Offsets |->
                        IF o \in Range(offsets)
                        THEN Phys(k.attr.ActiveLow, ValueAt(vs, IndexOf(offsets, o)))
                        ELSE k.level[o]]], Nil)

\* GPIOHANDLE_SET_LINE_VALUES_IOCTL: on a handle descriptor only.
KSetLineValues(k, fd, hd, fault) ==
    IF ~FdOpen(k, fd) THEN KResult(k, EBADF)
    ELSE IF fault THEN KResult(k, EIO)
    ELSE IF k.fds[fd].type = "handle" THEN KWrite(k, fd, hd)
    ELSE KResult(k, EINVAL)

\* The ABI v2 set-values call: on a line descriptor only.
KSetLineValuesV2(k, fd, vv, fault) ==
    IF ~FdOpen(k, fd) THEN KResult(k, EBADF)
    ELSE IF fault THEN KResult(k, EIO)
    ELSE IF k.fds[fd].type = "line" THEN KWrite(k, fd, vv)
    ELSE KResult(k, EINVAL)

\* GPIOHANDLE_SET_CONFIG_IOCTL: on a handle descriptor only.
KSetLineConfig(k, fd, flags, vs, fault) ==
    IF ~FdOpen(k, fd) THEN KResult(k, EBADF)
    ELSE IF fault THEN KResult(k, EIO)
    ELSE IF k.fds[fd].type # "handle" \/ ~ValidHandleFlags(flags) THEN KResult(k, EINVAL)
    ELSE KResult(KApply(k, k.fds[fd].offsets, HandleDir(flags), HandleAttr(flags, {}), vs), Nil)

\* The ABI v2 set-config call: on a line descriptor only.
KSetLineConfigV2(k, fd, config, vs, fault) ==
    IF ~FdOpen(k, fd) THEN KResult(k, EBADF)
    ELSE IF fault THEN KResult(k, EIO)
    ELSE IF k.fds[fd].type # "line" \/ ~ValidConfigV2(config) THEN KResult(k, EINVAL)
    ELSE KResult(KApply(k, k.fds[fd].offsets, ConfigDir(config), ConfigAttr(config), vs), Nil)

\* The ABI v1 line info flags of line o.
KLineFlags(k, o) ==
    (IF k.dir[o] = LineDirectionOutput THEN {"IsOut"} ELSE {})
    \cup
    (IF o \notin Requested(k) THEN {}
     ELSE {"Requested"}
          \cup (IF k.attr.ActiveLow THEN {"ActiveLow"} ELSE {})
          \cup (IF k.attr.Drive = LineDriveOpenDrain THEN {"OpenDrain"}
                ELSE IF k.attr.Drive = LineDriveOpenSource THEN {"OpenSource"} ELSE {})
          \cup (IF k.attr.Bias = LineBiasPullUp THEN {"PullUp"}
                ELSE IF k.attr.Bias = LineBiasPullDown THEN {"PullDown"}
                ELSE IF k.attr.Bias = LineBiasDisabled THEN {"BiasDisable"} ELSE {}))

\* The ABI v2 line info config of line o: as ABI v1 reports it, plus the edge.
KLineConfigV2(k, o) ==
    LET c == lineInfoToLineConfig(KLineFlags(k, o))
        e == IF o \in Requested(k) THEN k.attr.Edge ELSE LineEdgeNone
    IN  [c EXCEPT !.Flags = IF e # LineEdgeNone THEN @ \cup {"EdgeDetection"} ELSE @,
                  !.EdgeDetection = e]

\* GPIO_GET_LINEINFO_WATCH_IOCTL on the chip descriptor, of either ABI.
KWatchLineInfo(k, offset, fault) ==
    IF fault THEN KResult(k, EIO)
    ELSE IF offset \notin Offsets THEN KResult(k, EINVAL)
    ELSE IF offset \in k.watched THEN KResult(k, EBUSY)
    ELSE KResult([k EXCEPT !.watched = @ \cup {offset}], Nil)

\* GPIO_GET_LINEINFO_UNWATCH_IOCTL
KUnwatchLineInfo(k, offset, fault) ==
    IF fault THEN KResult(k, EIO)
    ELSE IF offset \notin Offsets THEN KResult(k, EINVAL)
    ELSE IF offset \notin k.watched THEN KResult(k, EBUSY)
    ELSE KResult([k EXCEPT !.watched = @ \ {offset}], Nil)

\* close(2) of the chip descriptor: its watches go with it.
KCloseChip(k) == [k EXCEPT !.watched = {}]

(***************************************************************************)
(* State.                                                                  *)
(***************************************************************************)
VARIABLES
    kernel,     \* the kernel side of the character device
    chip,       \* the Chip the request is made through
    line,       \* the Line or Lines request (its baseLine), NoLine before it exists
    watcher,    \* the event watcher attached to the request
    last        \* the last library call: its arguments, results and kernel call

vars == <<kernel, chip, line, watcher, last>>

NoLine == [kind |-> "none"]
\* No watcher: no descriptors, no goroutine (pc), no event in dispatch (evt),
\* none delivered (log), no offsets to tag the events of a descriptor with
\* (evtfds).
NoWatcher ==
    [kind |-> "none", fds |-> {}, closed |-> FALSE,
     pc |-> "none", done |-> FALSE, evt |-> <<>>, log |-> <<>>, evtfds |-> <<>>]

\* Marks a slot of a caller's buffer that no call has written.
Untouched == -1

Call(op, arg, err, ret, kcall) ==
    [op |-> op, arg |-> arg, err |-> err, ret |-> ret, kcall |-> kcall]

(***************************************************************************)
(* Chip.                                                                   *)
(***************************************************************************)
newLineInfo(offset, flags) ==
    [Offset |-> offset, Config |-> lineInfoToLineConfig(flags)]

newLineInfoV2(offset, config) ==
    [Offset |-> offset, Config |-> config]

NoInfo == newLineInfoV2(0, LineConfig)

\* A LineInfo that leaves the offset to the kernel.
Chip_LineInfo_Unchecked(c, k, offset, fault) ==
    IF c.closed THEN [err |-> ErrClosed, info |-> NoInfo, kcall |-> "none"]
    ELSE IF fault THEN [err |-> EIO, info |-> NoInfo, kcall |-> "GetLineInfo"]
    ELSE IF offset \notin Offsets THEN [err |-> EINVAL, info |-> NoInfo, kcall |-> "GetLineInfo"]
    ELSE [err |-> Nil, info |-> newLineInfo(offset, KLineFlags(k, offset)),
          kcall |-> "GetLineInfo"]

\* Chip.LineInfo: the result, its error and the kernel call issued.
Chip_LineInfo(c, k, offset, fault) ==
    IF c.closed THEN [err |-> ErrClosed, info |-> NoInfo, kcall |-> "none"]
    ELSE IF offset < 0 \/ offset >= c.lines
         THEN [err |-> ErrInvalidOffset, info |-> NoInfo, kcall |-> "none"]
    ELSE IF c.options.abi = 1
         THEN IF fault THEN [err |-> EIO, info |-> NoInfo, kcall |-> "GetLineInfo"]
              ELSE [err |-> Nil, info |-> newLineInfo(offset, KLineFlags(k, offset)),
                    kcall |-> "GetLineInfo"]
    ELSE IF fault THEN [err |-> EIO, info |-> NoInfo, kcall |-> "GetLineInfoV2"]
    ELSE IF k.abi # 2 THEN [err |-> EINVAL, info |-> NoInfo, kcall |-> "GetLineInfoV2"]
    ELSE [err |-> Nil, info |-> newLineInfoV2(offset, KLineConfigV2(k, offset)),
          kcall |-> "GetLineInfoV2"]

\* The consumer label of a chip opened without one: "gpiod-<pid>".
DefaultConsumer == "gpiod-pid"

\* No info change handler is registered for a line.
NoHandler == 0

\* A NewChip that takes ABI v2 for granted when no version is given.
NewChip_NoProbe(k, abi, config) ==
    [f |-> TRUE, lines |-> ChipLines,
     options |-> [abi |-> IF abi # 0 THEN abi ELSE 2, Config |-> config,
                  consumer |-> DefaultConsumer],
     iw |-> "none", ich |-> [o \in Offsets |-> NoHandler],
     closed |-> FALSE, pc |-> "idle", iwpc |-> "idle", iwevt |-> <<>>]

\* NewChip: with no ABI version given, ABI v2 is probed with a line info query.
\* iwpc is where the goroutine of the info watcher is, once there is one, and
\* iwevt the offset and the handler of the change it is dispatching.
NewChip(k, abi, config) ==
    LET c == [f |-> TRUE, lines |-> ChipLines,
              options |-> [abi |-> abi, Config |-> config, consumer |-> DefaultConsumer],
              iw |-> "none", ich |-> [o \in Offsets |-> NoHandler],
              closed |-> FALSE, pc |-> "idle", iwpc |-> "idle", iwevt |-> <<>>]
    IN  IF abi # 0 THEN c
        ELSE IF Chip_LineInfo(c, k, 0, FALSE).err = Nil
             THEN [c EXCEPT !.options.abi = 2]
             ELSE [c EXCEPT !.options.abi = 1]

\* The consumer label of a chip opened with one, and of a request made with one.
ChipConsumer == "gpiod-test-chip"
LineConsumer == "gpiod-test-line"

\* NewChip with chip options: they are applied to the chip's options, which
\* start with the default consumer label.
NewChipWith(k, options) ==
    LET co == applyOptions([LineOptions(LineConfig, <<>>, 0)
                               EXCEPT !.consumer = DefaultConsumer],
                           options)
    IN  [NewChip(k, co.abi, co.Config) EXCEPT !.options.consumer = co.consumer]

\* The event watchers: one descriptor for ABI v2, one per line for ABI v1.
\* A new watcher is running: its goroutine waits for its descriptors.
newWatcher(fd) == [NoWatcher EXCEPT !.kind = "v2", !.fds = {fd}, !.pc = "wait"]

newWatcherV1(fds) == [NoWatcher EXCEPT !.kind = "v1", !.fds = fds, !.pc = "wait"]

Got(k, vfd, w, err) == [k |-> k, vfd |-> vfd, watcher |-> w, err |-> err]

\* A getLine that returns the request with no watcher on it.
getLine_NoWatcher(k, offsets, lo, fault) ==
    LET values == Take(lo.values, Len(offsets))
        r == KGetLine(k, offsets, lo.Config, values, fault = 1)
    IN  IF r.err # Nil THEN Got(r.k, 0, NoWatcher, r.err)
        ELSE Got(r.k, r.fd, NoWatcher, Nil)

\* Chip.getLine: the ABI v2 request.  fault 1 fails the kernel call, fault 2
\* the creation of the watcher.
getLine(k, offsets, lo, fault) ==
    LET values == Take(lo.values, Len(offsets))
        r == KGetLine(k, offsets, lo.Config, values, fault = 1)
    IN  IF r.err # Nil THEN Got(r.k, 0, NoWatcher, r.err)
        ELSE IF lo.Config.EdgeDetection # LineEdgeNone
             THEN IF fault = 2 THEN Got(KClose(r.k, r.fd), 0, NoWatcher, EIO)
                  ELSE Got(r.k, r.fd, newWatcher(r.fd), Nil)
        ELSE Got(r.k, r.fd, NoWatcher, Nil)

\* The loop of Chip.getEventRequest from the i-th offset on: one event
\* request per offset; an error returns at once.
RECURSIVE getEventRequests(_, _, _, _, _, _)
getEventRequests(k, offsets, lo, fault, i, fds) ==
    IF i > Len(offsets) THEN [k |-> k, fds |-> fds, err |-> Nil]
    ELSE LET r == KGetLineEvent(k, offsets[i], lineConfigToHandleFlags(lo.Config),
                                lineConfigToEventFlag(lo.Config), fault = i)
         IN  IF r.err # Nil THEN [k |-> r.k, fds |-> fds, err |-> r.err]
             ELSE getEventRequests(r.k, offsets, lo, fault, i + 1, Append(fds, r.fd))

RECURSIVE CloseAll(_, _)
CloseAll(k, fds) ==
    IF fds = {} THEN k
    ELSE LET fd == CHOOSE f \in fds : TRUE IN CloseAll(KClose(k, fd), fds \ {fd})

\* A map that tags every event descriptor with the first offset.
evtfds_First(fds, offsets) ==
    [fd \in Range(fds) |-> offsets[1]]

\* The fds map of getEventRequest: the offset each event descriptor reports.
evtfds(fds, offsets) ==
    [fd \in Range(fds) |-> offsets[IndexOf(fds, fd)]]

\* A getEventRequest that requests the first offset only.
getEventRequest_FirstOnly(k, offsets, lo, fault) ==
    LET r == getEventRequests(k, Take(offsets, 1), lo, fault, 1, <<>>)
    IN  IF r.err # Nil THEN Got(r.k, 0, NoWatcher, r.err)
        ELSE Got(r.k, IF Len(r.fds) > 0 THEN r.fds[1] ELSE 0, [newWatcherV1(Range(r.fds)) EXCEPT !.evtfds = evtfds(r.fds, offsets)], Nil)

\* Chip.getEventRequest: the ABI v1 request with edge detection.  fault i
\* fails the i-th kernel call, fault len(offsets)+1 the creation of the watcher.
getEventRequest(k, offsets, lo, fault) ==
    LET r == getEventRequests(k, offsets, lo, fault, 1, <<>>)
    IN  IF r.err # Nil THEN Got(r.k, 0, NoWatcher, r.err)
        ELSE IF fault = Len(offsets) + 1
             THEN Got(CloseAll(r.k, Range(r.fds)), 0, NoWatcher, EIO)
        ELSE Got(r.k, IF Len(r.fds) > 0 THEN r.fds[1] ELSE 0, [newWatcherV1(Range(r.fds)) EXCEPT !.evtfds = evtfds(r.fds, offsets)], Nil)

\* A getHandleRequest that reports every error of the kernel as EIO.
getHandleRequest_Masked(k, offsets, lo, fault) ==
    LET r == KGetLineHandle(k, offsets, lineConfigToHandleFlags(lo.Config),
                            lo.values, fault = 1)
    IN  IF r.err # Nil THEN Got(r.k, 0, NoWatcher, EIO)
        ELSE Got(r.k, r.fd, NoWatcher, Nil)

\* Chip.getHandleRequest: the ABI v1 request without edge detection.
getHandleRequest(k, offsets, lo, fault) ==
    LET r == KGetLineHandle(k, offsets, lineConfigToHandleFlags(lo.Config),
                            lo.values, fault = 1)
    IN  IF r.err # Nil THEN Got(r.k, 0, NoWatcher, r.err)
        ELSE Got(r.k, r.fd, NoWatcher, Nil)

\* Request options built from nothing but the options of the call.
requestOptions_NoDefaults(c, offsets, options) ==
    LET lo == applyOptions(LineOptions(LineConfig, <<>>, c.options.abi), options)
    IN  [lo EXCEPT !.values = Take(lo.values, Len(offsets))]

\* The options of a request: the chip's defaults overlaid with the options of
\* the call, the values cut to the number of lines.
requestOptions(c, offsets, options) ==
    LET lo == applyOptions([LineOptions(c.options.Config, <<>>, c.options.abi)
                               EXCEPT !.consumer = c.options.consumer],
                           options)
    IN  [lo EXCEPT !.values = Take(lo.values, Len(offsets))]

\* A RequestLines that hands on and caches the values as they were given.
Chip_RequestLines_Uncut(c, k, kind, offsets, options, fault) ==
    IF \E i \in 1 .. Len(offsets) : offsets[i] < 0 \/ offsets[i] >= c.lines
    THEN [line |-> NoLine, k |-> k, watcher |-> NoWatcher, err |-> ErrInvalidOffset,
          kcall |-> "none", lo |-> <<>>]
    ELSE
    LET lo == applyOptions([LineOptions(c.options.Config, <<>>, c.options.abi)
                               EXCEPT !.consumer = c.options.consumer],
                           options)
        isEvent == lo.abi # 2 /\ lo.eh
        g == IF ~c.f THEN Got(k, 0, NoWatcher, EBADF)
             ELSE IF lo.abi = 2 THEN getLine(k, offsets, lo, fault)
             ELSE IF lo.eh THEN getEventRequest(k, offsets, lo, fault)
             ELSE getHandleRequest(k, offsets, lo, fault)
        kcall == IF lo.abi = 2 THEN "GetLine"
                 ELSE IF lo.eh THEN "GetLineEvent" ELSE "GetLineHandle"
    IN  IF g.err # Nil
        THEN [line |-> NoLine, k |-> g.k, watcher |-> NoWatcher, err |-> g.err,
              kcall |-> kcall, lo |-> <<lo>>]
        ELSE [line |-> [kind |-> kind, offsets |-> offsets, vfd |-> g.vfd,
                        isEvent |-> isEvent, abi |-> lo.abi, config |-> lo.Config,
                        values |-> lo.values, info |-> <<>>, closed |-> FALSE,
                        watcher |-> g.watcher.kind # "none", mu |-> "free"],
              k |-> g.k, watcher |-> g.watcher, err |-> Nil, kcall |-> kcall,
              lo |-> <<lo>>]

\* Chip.RequestLines, and Chip.RequestLine when kind is "Line".  The three
\* paths issue their call on c.f.Fd(), of which a closed file gives none.
Chip_RequestLines(c, k, kind, offsets, options, fault) ==
    IF \E i \in 1 .. Len(offsets) : offsets[i] < 0 \/ offsets[i] >= c.lines
    THEN [line |-> NoLine, k |-> k, watcher |-> NoWatcher, err |-> ErrInvalidOffset,
          kcall |-> "none", lo |-> <<>>]
    ELSE
    LET lo == requestOptions(c, offsets, options)
        isEvent == lo.abi # 2 /\ lo.eh
        g == IF ~c.f THEN Got(k, 0, NoWatcher, EBADF)
             ELSE IF lo.abi = 2 THEN getLine(k, offsets, lo, fault)
             ELSE IF lo.eh THEN getEventRequest(k, offsets, lo, fault)
             ELSE getHandleRequest(k, offsets, lo, fault)
        kcall == IF lo.abi = 2 THEN "GetLine"
                 ELSE IF lo.eh THEN "GetLineEvent" ELSE "GetLineHandle"
    IN  IF g.err # Nil
        THEN [line |-> NoLine, k |-> g.k, watcher |-> NoWatcher, err |-> g.err,
              kcall |-> kcall, lo |-> <<lo>>]
        ELSE [line |-> [kind |-> kind, offsets |-> offsets, vfd |-> g.vfd,
                        isEvent |-> isEvent, abi |-> lo.abi, config |-> lo.Config,
                        values |-> lo.values, info |-> <<>>, closed |-> FALSE,
                        watcher |-> g.watcher.kind # "none", mu |-> "free"],
              k |-> g.k, watcher |-> g.watcher, err |-> Nil, kcall |-> kcall,
              lo |-> <<lo>>]

\* A Close that goes on whatever the closed flag says.
Chip_Close_enter_Again(c) ==
    [c |-> [c EXCEPT !.closed = TRUE, !.pc = "unlocked"], err |-> Nil]

\* Chip.Close, entered: the closed flag is read and set under the lock, and a
\* call that finds it set returns ErrClosed.  The call that found it clear
\* goes on without the lock.
Chip_Close_enter(c) ==
    IF c.closed THEN [c |-> c, err |-> ErrClosed]
    ELSE [c |-> [c EXCEPT !.closed = TRUE, !.pc = "unlocked"], err |-> Nil]

\* A Close that releases the lines requested through the chip with it.
Chip_Close_ReleasingLines(c, k) ==
    IF c.pc = "unlocked"
    THEN [c |-> [c EXCEPT !.iw = IF @ = "running" THEN "closed" ELSE @, !.pc = "iw"],
          k |-> k, done |-> FALSE]
    ELSE [c |-> [c EXCEPT !.f = FALSE, !.pc = "idle"],
          k |-> CloseAll(KCloseChip(k), 1 .. Len(k.fds)), done |-> TRUE]

\* Chip.Close, going on: the info watcher is closed if there is one, then the
\* chip file is closed and its result returned.
Chip_Close(c, k) ==
    IF c.pc = "unlocked"
    THEN [c |-> [c EXCEPT !.iw = IF @ = "running" THEN "closed" ELSE @, !.pc = "iw"],
          k |-> k, done |-> FALSE]
    ELSE [c |-> [c EXCEPT !.f = FALSE, !.pc = "idle"], k |-> KCloseChip(k), done |-> TRUE]

\* Chip.createInfoWatcher
createInfoWatcher(c, fault) ==
    IF fault THEN [c |-> c, err |-> EIO]
    ELSE [c |-> [c EXCEPT !.iw = "running", !.ich = [o \in Offsets |-> NoHandler]],
          err |-> Nil]

\* The handler the info watcher calls for a change of line o.
infoChangeHandler(c, o) == c.ich[o]

\* The handler the info watcher is created with, up to its call of the
\* registered handler: the handler of the offset is looked up under the
\* chip's lock, the lock is released, and a change of an offset without a
\* handler is dropped.
infoWatcher_lookup(c, o) ==
    IF c.ich[o] = NoHandler THEN c
    ELSE [c EXCEPT !.iwpc = "call", !.iwevt = <<o, c.ich[o]>>]

\* A WatchLineInfo that creates the info watcher anew on every call.
Chip_WatchLineInfo_Recreating(c, k, offset, lich, fault) ==
    IF c.closed THEN [c |-> c, k |-> k, err |-> ErrClosed, info |-> NoInfo, kcall |-> "none"]
    ELSE
    LET w == createInfoWatcher(c, fault = 1)
    IN  IF w.err # Nil
        THEN [c |-> c, k |-> k, err |-> w.err, info |-> NoInfo, kcall |-> "none"]
        ELSE
        LET v1 == c.options.abi = 1
            kcall == IF v1 THEN "WatchLineInfo" ELSE "WatchLineInfoV2"
            r == IF ~v1 /\ k.abi # 2 /\ fault # 2 THEN KResult(k, EINVAL)
                 ELSE KWatchLineInfo(k, offset, fault = 2)
        IN  IF r.err # Nil
            THEN [c |-> w.c, k |-> r.k, err |-> r.err, info |-> NoInfo, kcall |-> kcall]
            ELSE [c |-> [w.c EXCEPT !.ich[offset] = lich], k |-> r.k, err |-> Nil,
                  info |-> IF v1 THEN newLineInfo(offset, KLineFlags(k, offset))
                           ELSE newLineInfoV2(offset, KLineConfigV2(k, offset)),
                  kcall |-> kcall]

\* Chip.WatchLineInfo with handler lich.  fault 1 fails the creation of the
\* watcher, fault 2 the kernel call.
Chip_WatchLineInfo(c, k, offset, lich, fault) ==
    IF c.closed THEN [c |-> c, k |-> k, err |-> ErrClosed, info |-> NoInfo, kcall |-> "none"]
    ELSE
    LET w == IF c.iw = "none" THEN createInfoWatcher(c, fault = 1)
             ELSE [c |-> c, err |-> Nil]
    IN  IF w.err # Nil
        THEN [c |-> c, k |-> k, err |-> w.err, info |-> NoInfo, kcall |-> "none"]
        ELSE
        LET v1 == c.options.abi = 1
            kcall == IF v1 THEN "WatchLineInfo" ELSE "WatchLineInfoV2"
            r == IF ~v1 /\ k.abi # 2 /\ fault # 2 THEN KResult(k, EINVAL)
                 ELSE KWatchLineInfo(k, offset, fault = 2)
        IN  IF r.err # Nil
            THEN [c |-> w.c, k |-> r.k, err |-> r.err, info |-> NoInfo, kcall |-> kcall]
            ELSE [c |-> [w.c EXCEPT !.ich[offset] = lich], k |-> r.k, err |-> Nil,
                  info |-> IF v1 THEN newLineInfo(offset, KLineFlags(k, offset))
                           ELSE newLineInfoV2(offset, KLineConfigV2(k, offset)),
                  kcall |-> kcall]

\* An UnwatchLineInfo that keeps the handler registered.
Chip_UnwatchLineInfo_Keep(c, k, offset, fault) ==
    IF c.closed THEN [c |-> c, k |-> k, err |-> Nil, kcall |-> "none"]
    ELSE LET r == KUnwatchLineInfo(k, offset, fault)
         IN  [c |-> c, k |-> r.k, err |-> r.err, kcall |-> "UnwatchLineInfo"]

\* Chip.UnwatchLineInfo
Chip_UnwatchLineInfo(c, k, offset, fault) ==
    IF c.closed THEN [c |-> c, k |-> k, err |-> Nil, kcall |-> "none"]
    ELSE LET r == KUnwatchLineInfo(k, offset, fault)
         IN  [c |-> IF offset \in Offsets THEN [c EXCEPT !.ich[offset] = NoHandler] ELSE c,
              k |-> r.k, err |-> r.err, kcall |-> "UnwatchLineInfo"]

(***************************************************************************)
(* Line and Lines requests.  Each method is given the request l and the    *)
(* kernel state k, and yields the request and kernel after the call with   *)
(* the call's results.  Every method runs under the request's mutex (or,   *)
(* in Reconfigure, reads immutable fields only before taking it), so a     *)
(* call is one step.                                                       *)
(***************************************************************************)

\* The watcher's Close: the ABI v1 watcher releases the event descriptors it
\* reads, the ABI v2 watcher leaves the line descriptor to the request.
watcher_Close(w, k) ==
    [w |-> [w EXCEPT !.closed = TRUE, !.done = TRUE, !.pc = "exited", !.evt = <<>>],
     k |-> IF w.kind = "v1" /\ ~w.closed THEN CloseAll(k, w.fds) ELSE k]

\* A Close that takes the request down without marking it closed.
baseLine_Close_Unmarked(l, w, k) ==
    LET wc == IF l.watcher THEN watcher_Close(w, k) ELSE [w |-> w, k |-> k]
    IN  [l |-> l,
         w |-> wc.w,
         k |-> IF ~l.isEvent THEN KClose(wc.k, l.vfd) ELSE wc.k,
         err |-> Nil]

\* baseLine.Close
baseLine_Close(l, w, k) ==
    IF l.closed THEN [l |-> l, w |-> w, k |-> k, err |-> ErrClosed]
    ELSE LET wc == IF l.watcher THEN watcher_Close(w, k) ELSE [w |-> w, k |-> k]
         IN  [l |-> [l EXCEPT !.closed = TRUE],
              w |-> wc.w,
              k |-> IF ~l.isEvent THEN KClose(wc.k, l.vfd) ELSE wc.k,
              err |-> Nil]

\* A Close that takes a request with a watcher for one without.
baseLine_Close_enter_NoWatcher(l, w, k) ==
    IF l.closed THEN [l |-> l, w |-> w, k |-> k, err |-> ErrClosed, returned |-> TRUE]
    ELSE [l |-> [l EXCEPT !.closed = TRUE], w |-> w,
          k |-> IF ~l.isEvent THEN KClose(k, l.vfd) ELSE k,
          err |-> Nil, returned |-> TRUE]

\* baseLine.Close up to its call of the watcher's Close: the lock is taken, a
\* closed request answers ErrClosed, the request is marked closed, and the
\* watcher, if there is one, is told to stop.  Without a watcher the
\* descriptor is released and the call returns; with one the call goes on in
\* baseLine_Close_leave once the watcher's Close returns, and holds the lock
\* until then.
baseLine_Close_enter(l, w, k) ==
    IF l.closed THEN [l |-> l, w |-> w, k |-> k, err |-> ErrClosed, returned |-> TRUE]
    ELSE IF l.watcher
         THEN [l |-> [l EXCEPT !.closed = TRUE, !.mu = "Close"],
               w |-> [w EXCEPT !.done = TRUE], k |-> k, err |-> Nil, returned |-> FALSE]
    ELSE [l |-> [l EXCEPT !.closed = TRUE], w |-> w,
          k |-> IF ~l.isEvent THEN KClose(k, l.vfd) ELSE k,
          err |-> Nil, returned |-> TRUE]

\* A Close that releases the request's descriptor whatever the request is.
baseLine_Close_leave_Always(l, w, k) ==
    LET wc == watcher_Close(w, k)
    IN  [l |-> [l EXCEPT !.mu = "free"], w |-> wc.w, k |-> KClose(wc.k, l.vfd), err |-> Nil]

\* baseLine.Close from the return of the watcher's Close: the watcher has
\* released the descriptors that are its own, the request releases its
\* descriptor unless it is an ABI v1 event request, and the lock is released.
baseLine_Close_leave(l, w, k) ==
    LET wc == watcher_Close(w, k)
    IN  [l |-> [l EXCEPT !.mu = "free"], w |-> wc.w,
         k |-> IF ~l.isEvent THEN KClose(wc.k, l.vfd) ELSE wc.k, err |-> Nil]

\* The end of baseLine.Reconfigure under ABI v1: the kernel's answer r to the
\* set-config call decides whether the new configuration is cached.
reconfigureCommitV1(l, lo, r) ==
    IF r.err = Nil THEN [l EXCEPT !.config = lo.Config] ELSE l

\* A commit that caches the new configuration whatever the kernel answered.
reconfigureCommitV2_Always(l, lo, r) ==
    [l EXCEPT !.config = lo.Config, !.values = lo.values]

\* The same under ABI v2, where the values are cached too.
reconfigureCommitV2(l, lo, r) ==
    IF r.err = Nil THEN [l EXCEPT !.config = lo.Config, !.values = lo.values] ELSE l

\* baseLine.Reconfigure
baseLine_Reconfigure(l, k, options, fault) ==
    IF l.isEvent THEN [l |-> l, k |-> k, err |-> EINVAL, kcall |-> "none"]
    ELSE IF Len(options) = 0 THEN [l |-> l, k |-> k, err |-> Nil, kcall |-> "none"]
    ELSE IF l.closed THEN [l |-> l, k |-> k, err |-> ErrClosed, kcall |-> "none"]
    ELSE
    LET lo0 == applyOptions(LineOptions(l.config, l.values, l.abi), options)
        lo == [lo0 EXCEPT !.values = Take(lo0.values, Len(l.offsets))]
    IN  IF l.abi = 1
        THEN LET r == KSetLineConfig(k, l.vfd, lineConfigToHandleFlags(lo.Config),
                                     lo.values, fault)
             IN  [l |-> reconfigureCommitV1(l, lo, r), k |-> r.k, err |-> r.err,
                  kcall |-> "SetLineConfig"]
        ELSE LET vs == IF lo.Config.Direction = LineDirectionOutput
                       THEN lo.values ELSE <<>>
                 r == KSetLineConfigV2(k, l.vfd, lo.Config, vs, fault)
             IN  [l |-> reconfigureCommitV2(l, lo, r), k |-> r.k, err |-> r.err,
                  kcall |-> "SetLineConfigV2"]

\* hd[i] of a HandleData the kernel filled with vals, lv.Get(i) of a LineValues.
Get(vals, i) == IF i <= Len(vals) THEN vals[i] ELSE 0

\* A Value that does not look whether the request is closed.
Line_Value_Unguarded(l, k, fault) ==
    IF l.abi = 1
    THEN LET r == KGetLineValues(k, l.vfd, fault)
         IN  [ret |-> Get(r.vals, 1), err |-> r.err, kcall |-> "GetLineValues"]
    ELSE LET r == KGetLineValuesV2(k, l.vfd, fault)
         IN  [ret |-> Get(r.vals, 1), err |-> r.err, kcall |-> "GetLineValuesV2"]

\* Line.Value
Line_Value(l, k, fault) ==
    IF l.closed THEN [ret |-> 0, err |-> ErrClosed, kcall |-> "none"]
    ELSE IF l.abi = 1
         THEN LET r == KGetLineValues(k, l.vfd, fault)
              IN  [ret |-> Get(r.vals, 1), err |-> r.err, kcall |-> "GetLineValues"]
         ELSE LET r == KGetLineValuesV2(k, l.vfd, fault)
              IN  [ret |-> Get(r.vals, 1), err |-> r.err, kcall |-> "GetLineValuesV2"]

\* A guard that leaves the direction to the kernel.
setValueGuard_NoDirection(l) ==
    IF l.closed THEN ErrClosed ELSE Nil

\* The checks Line.SetValue and Lines.SetValues make before the kernel call.
setValueGuard(l) ==
    IF l.config.Direction # LineDirectionOutput THEN ErrPermissionDenied
    ELSE IF l.closed THEN ErrClosed
    ELSE Nil

\* Line.SetValue
Line_SetValue(l, k, value, fault) ==
    IF setValueGuard(l) # Nil
    THEN [l |-> l, k |-> k, err |-> setValueGuard(l), kcall |-> "none"]
    ELSE IF l.abi = 1
         THEN LET hd == <<>>
                  r == KSetLineValues(k, l.vfd, hd, fault)
              IN  [l |-> IF r.err = Nil THEN [l EXCEPT !.values = <<value>>] ELSE l,
                   k |-> r.k, err |-> r.err, kcall |-> "SetLineValues"]
         ELSE LET lv == <<value>>
                  r == KSetLineValuesV2(k, l.vfd, lv, fault)
              IN  [l |-> IF r.err = Nil THEN [l EXCEPT !.values = <<value>>] ELSE l,
                   k |-> r.k, err |-> r.err, kcall |-> "SetLineValuesV2"]

\* Lines.Values: values is the caller's buffer.
Lines_Values(l, k, values, fault) ==
    IF l.closed THEN [ret |-> values, err |-> ErrClosed, kcall |-> "none"]
    ELSE
    LET lines == Min(Len(values), Len(l.offsets))
        r == IF l.abi = 1 THEN KGetLineValues(k, l.vfd, fault)
             ELSE KGetLineValuesV2(k, l.vfd, fault)
        kcall == IF l.abi = 1 THEN "GetLineValues" ELSE "GetLineValuesV2"
    IN  IF r.err # Nil THEN [ret |-> values, err |-> r.err, kcall |-> kcall]
        ELSE [ret |-> [i \in 1 .. Len(values) |->
                          IF i <= lines THEN Get(r.vals, i) ELSE values[i]],
              err |-> Nil, kcall |-> kcall]

\* A SetValues that caches the values whatever the kernel answered.
Lines_SetValues_Always(l, k, values, fault) ==
    IF setValueGuard(l) # Nil
    THEN [l |-> l, k |-> k, err |-> setValueGuard(l), kcall |-> "none"]
    ELSE
    LET vs == Take(values, Len(l.offsets))
        r == KSetLineValuesV2(k, l.vfd, vs, fault)
    IN  [l |-> [l EXCEPT !.values = vs],
         k |-> r.k, err |-> r.err, kcall |-> "SetLineValuesV2"]

\* Lines.SetValues
Lines_SetValues(l, k, values, fault) ==
    IF setValueGuard(l) # Nil
    THEN [l |-> l, k |-> k, err |-> setValueGuard(l), kcall |-> "none"]
    ELSE
    LET vs == Take(values, Len(l.offsets))
        r == KSetLineValuesV2(k, l.vfd, vs, fault)
    IN  [l |-> IF r.err = Nil THEN [l EXCEPT !.values = vs] ELSE l,
         k |-> r.k, err |-> r.err, kcall |-> "SetLineValuesV2"]

\* The loop of Lines.Info from the i-th offset on.  fault i + 1 fails the
\* i-th line info query.
RECURSIVE linesInfoLoop(_, _, _, _, _, _)
linesInfoLoop(c, k, offsets, fault, i, info) ==
    IF i > Len(offsets) THEN [err |-> Nil, info |-> info]
    ELSE LET r == Chip_LineInfo(c, k, offsets[i], fault = i + 1)
         IN  IF r.err # Nil THEN [err |-> r.err, info |-> <<>>]
             ELSE linesInfoLoop(c, k, offsets, fault, i + 1, Append(info, r.info))

\* Lines.Info: the cached snapshots, or a fetch through a chip opened for the
\* call.  fault 1 fails NewChip.
Lines_Info(l, k, fault) ==
    IF l.closed THEN [l |-> l, k |-> k, ret |-> <<>>, err |-> ErrClosed, kcall |-> "none"]
    ELSE IF l.info # <<>>
         THEN [l |-> l, k |-> k, ret |-> l.info, err |-> Nil, kcall |-> "none"]
    ELSE IF fault = 1
         THEN [l |-> l, k |-> k, ret |-> <<>>, err |-> EIO, kcall |-> "NewChip"]
    ELSE LET c == NewChip(k, 0, LineConfig)
             k1 == KOpenChip(k)
             r == linesInfoLoop(c, k1, l.offsets, fault, 1, <<>>)
         IN  IF r.err # Nil
             THEN [l |-> l, k |-> KReleaseChip(k1), ret |-> <<>>, err |-> r.err,
                   kcall |-> "GetLineInfo"]
             ELSE [l |-> [l EXCEPT !.info = r.info], k |-> KReleaseChip(k1),
                   ret |-> r.info, err |-> Nil, kcall |-> "GetLineInfo"]

\* An Info that fetches the line info at every call.
Line_Info_Refetching(l, k, fault) ==
    IF l.closed THEN [l |-> l, k |-> k, ret |-> <<>>, err |-> ErrClosed, kcall |-> "none"]
    ELSE IF fault = 1
         THEN [l |-> l, k |-> k, ret |-> <<>>, err |-> EIO, kcall |-> "NewChip"]
    ELSE LET c == NewChip(k, 0, LineConfig)
             k1 == KOpenChip(k)
             r == Chip_LineInfo(c, k1, l.offsets[1], fault = 2)
         IN  IF r.err # Nil
             THEN [l |-> l, k |-> KReleaseChip(k1), ret |-> <<>>, err |-> r.err,
                   kcall |-> "GetLineInfo"]
             ELSE [l |-> [l EXCEPT !.info = <<r.info>>], k |-> KReleaseChip(k1),
                   ret |-> <<r.info>>, err |-> Nil, kcall |-> "GetLineInfo"]

\* Line.Info: as Lines.Info, for the one offset of a Line.
Line_Info(l, k, fault) ==
    IF l.closed THEN [l |-> l, k |-> k, ret |-> <<>>, err |-> ErrClosed, kcall |-> "none"]
    ELSE IF l.info # <<>>
         THEN [l |-> l, k |-> k, ret |-> <<l.info[1]>>, err |-> Nil, kcall |-> "none"]
    ELSE IF fault = 1
         THEN [l |-> l, k |-> k, ret |-> <<>>, err |-> EIO, kcall |-> "NewChip"]
    ELSE LET c == NewChip(k, 0, LineConfig)
             k1 == KOpenChip(k)
             r == Chip_LineInfo(c, k1, l.offsets[1], fault = 2)
         IN  IF r.err # Nil
             THEN [l |-> l, k |-> KReleaseChip(k1), ret |-> <<>>, err |-> r.err,
                   kcall |-> "GetLineInfo"]
             ELSE [l |-> [l EXCEPT !.info = <<r.info>>], k |-> KReleaseChip(k1),
                   ret |-> <<r.info>>, err |-> Nil, kcall |-> "GetLineInfo"]

(***************************************************************************)
(* The calls explored.                                                     *)
(***************************************************************************)
\* n consecutive lines of the chip from line o on, wrapping around.
Run(o, n) == [i \in 1 .. n |-> (o + i - 1) % ChipLines]

\* n consecutive lines of the chip from line o down, wrapping around.
RunDown(o, n) == [i \in 1 .. n |-> (o + ChipLines - (i - 1)) % ChipLines]

\* Offset lists of a request: distinct lines of the chip, in ascending order
\* from line 0, and in an order that is neither ascending nor contiguous.
OffsetLists ==
    {Run(0, n) : n \in 1 .. Min(MaxLines, ChipLines)}
    \cup {RunDown(1, n) : n \in 2 .. Min(MaxLines, ChipLines)}

\* Value lists given to SetValues: 1, 0, 1, ... and 0, 1, 0, ... cut short,
\* exact and surplus, so that every line is written with both values.
ValueLists == {[i \in 1 .. n |-> (i + b) % 2] : n \in 0 .. (MaxLines + 1), b \in 0 .. 1}

\* Value lists given to AsOutput: 1, 0, 1, ... cut short, exact and surplus.
InitialValueLists == {[i \in 1 .. n |-> i % 2] : n \in 0 .. (MaxLines + 1)}

RequestOptionLists ==
    {<<>>, <<AsInput>>, <<AsInput, WithPullUp>>, <<WithBothEdges>>,
     <<AsActiveLow, WithFallingEdge>>, <<AsOutput(<<1>>), AsActiveLow>>}
    \cup {<<AsOutput(vs)>> : vs \in InitialValueLists}

ReconfigOptionLists ==
    {<<>>, <<AsInput>>, <<AsOutput(<<>>)>>, <<AsOutput(<<1>>)>>, <<AsOpenDrain>>}

\* The ABI versions a request can ask for: 0 leaves the chip's version.
ABIOptions == 0 .. 2

Init ==
    /\ kernel \in {[abi |-> a, dir |-> [o \in Offsets |-> LineDirectionInput],
                    level |-> [o \in Offsets |-> 0], attr |-> KAttrNone, fds |-> <<>>,
                    watched |-> {}, events |-> <<>>, reported |-> <<>>, chips |-> 0,
                    stale |-> FALSE] :
                   a \in 1 .. 2}
    /\ chip = NewChip(kernel, 0, LineConfig)
    /\ line = NoLine
    /\ watcher = NoWatcher
    /\ last = Call("NewChip", <<>>, Nil, <<>>, "none")

\* c.RequestLine(offset, options...) and c.RequestLines(offsets, options...)
RequestLines(kind, offsets, options, fault) ==
    /\ kind = "Line" => Len(offsets) = 1
    /\ LET r == Chip_RequestLines(chip, kernel, kind, offsets, options, fault)
       IN  /\ line' = r.line
           /\ kernel' = r.k
           /\ watcher' = r.watcher
           /\ last' = Call("RequestLines", options, r.err, r.lo, r.kcall)
    /\ UNCHANGED chip

\* l.Close()
Close ==
    /\ line # NoLine
    /\ LET r == baseLine_Close(line, watcher, kernel)
       IN  /\ line' = r.l
           /\ watcher' = r.w
           /\ kernel' = r.k
           /\ last' = Call("Close", <<>>, r.err, <<>>, "none")
    /\ UNCHANGED chip

\* l.Reconfigure(options...)
Reconfigure(options, fault) ==
    /\ LET r == baseLine_Reconfigure(line, kernel, options, fault = 1)
       IN  /\ line' = r.l
           /\ kernel' = r.k
           /\ last' = Call("Reconfigure", options, r.err, <<>>, r.kcall)
    /\ UNCHANGED <<chip, watcher>>

\* l.Value()
Value(fault) ==
    /\ LET r == Line_Value(line, kernel, fault = 1)
       IN  last' = Call("Value", <<>>, r.err, <<r.ret>>, r.kcall)
    /\ UNCHANGED <<kernel, chip, line, watcher>>

\* l.SetValue(value)
SetValue(value, fault) ==
    /\ LET r == Line_SetValue(line, kernel, value, fault = 1)
       IN  /\ line' = r.l
           /\ kernel' = r.k
           /\ last' = Call("SetValue", <<value>>, r.err, <<>>, r.kcall)
    /\ UNCHANGED <<chip, watcher>>

\* l.Values(values) with a buffer of n slots
Values(n, fault) ==
    /\ LET r == Lines_Values(line, kernel, [i \in 1 .. n |-> Untouched], fault = 1)
       IN  last' = Call("Values", <<n>>, r.err, r.ret, r.kcall)
    /\ UNCHANGED <<kernel, chip, line, watcher>>

\* l.SetValues(values)
SetValues(values, fault) ==
    /\ LET r == Lines_SetValues(line, kernel, values, fault = 1)
       IN  /\ line' = r.l
           /\ kernel' = r.k
           /\ last' = Call("SetValues", values, r.err, <<>>, r.kcall)
    /\ UNCHANGED <<chip, watcher>>

\* l.Info()
Info(fault) ==
    /\ LET r == IF line.kind = "Line" THEN Line_Info(line, kernel, fault)
                ELSE Lines_Info(line, kernel, fault)
       IN  /\ line' = r.l
           /\ kernel' = r.k
           /\ last' = Call("Info", <<>>, r.err, r.ret, r.kcall)
    /\ UNCHANGED <<chip, watcher>>

\* The world drives a requested input line to the other level.
ExternalToggle(o) ==
    /\ o \in Requested(kernel)
    /\ kernel.dir[o] = LineDirectionInput
    /\ kernel' = [kernel EXCEPT !.level[o] = 1 - @]
    /\ UNCHANGED <<chip, line, watcher, last>>

\* No request has been made yet.
CanRequest == line = NoLine /\ kernel.fds = <<>>

IsLine == line # NoLine /\ line.kind = "Line"

IsLines == line # NoLine /\ line.kind = "Lines"

\* A request is made through the chip, once.
Request ==
    /\ CanRequest
    /\ \E kind \in {"Line", "Lines"}, offsets \in OffsetLists,
          options \in RequestOptionLists, abi \in ABIOptions,
          fault \in 0 .. (MaxLines + 1) :
            RequestLines(kind, offsets,
                         IF abi = 0 THEN options ELSE Append(options, WithABI(abi)),
                         fault)

\* The request is made, used for reading and writing its lines, reconfigured
\* and closed, while the world drives its input lines.
Next ==
    \/ Request
    \/ Close
    \/ /\ line # NoLine
       /\ \E options \in ReconfigOptionLists, fault \in 0 .. 1 : Reconfigure(options, fault)
    \/ /\ IsLine
       /\ \E fault \in 0 .. 1 : Value(fault)
    \/ /\ IsLine
       /\ \E value \in 0 .. 1, fault \in 0 .. 1 : SetValue(value, fault)
    \/ /\ IsLines
       /\ \E n \in 0 .. (MaxLines + 1), fault \in 0 .. 1 : Values(n, fault)
    \/ /\ IsLines
       /\ \E values \in ValueLists, fault \in 0 .. 1 : SetValues(values, fault)
    \/ \E o \in Offsets : ExternalToggle(o)

Spec == Init /\ [][Next]_vars

\* The request is made, queried for its line info, reconfigured and closed.
NextInfo ==
    \/ Request
    \/ Close
    \/ /\ line # NoLine
       /\ \E options \in ReconfigOptionLists, fault \in 0 .. 1 : Reconfigure(options, fault)
    \/ /\ line # NoLine
       /\ \E fault \in 0 .. 2 : Info(fault)

SpecInfo == Init /\ [][NextInfo]_vars

(***************************************************************************)
(* The chip: its info, its info watches and its Close, with a request made *)
(* through it.                                                             *)
(***************************************************************************)
\* A call of c.Close() starts.
ChipClose ==
    /\ LET r == Chip_Close_enter(chip)
       IN  /\ chip' = r.c
           /\ last' = Call(IF r.err = Nil THEN "Chip.Close:unlocked" ELSE "Chip.Close",
                           <<>>, r.err, <<>>, "none")
    /\ UNCHANGED <<kernel, line, watcher>>

\* The call of c.Close() that goes on takes its next step, and returns after
\* the last one.
ChipCloseStep ==
    /\ chip.pc # "idle"
    /\ LET r == Chip_Close(chip, kernel)
       IN  /\ chip' = r.c
           /\ kernel' = r.k
           /\ last' = Call(IF r.done THEN "Chip.Close" ELSE "Chip.Close:iw",
                           <<>>, Nil, <<>>, "none")
    /\ UNCHANGED <<line, watcher>>

\* c.LineInfo(offset)
ChipLineInfo(offset, fault) ==
    /\ LET r == Chip_LineInfo(chip, kernel, offset, fault = 1)
       IN  last' = Call("Chip.LineInfo", <<offset>>, r.err, <<r.info>>, r.kcall)
    /\ UNCHANGED <<kernel, chip, line, watcher>>

\* c.WatchLineInfo(offset, lich)
WatchLineInfo(offset, lich, fault) ==
    /\ LET r == Chip_WatchLineInfo(chip, kernel, offset, lich, fault)
       IN  /\ chip' = r.c
           /\ kernel' = r.k
           /\ last' = Call("WatchLineInfo", <<offset, lich>>, r.err, <<r.info>>, r.kcall)
    /\ UNCHANGED <<line, watcher>>

\* c.UnwatchLineInfo(offset)
UnwatchLineInfo(offset, fault) ==
    /\ LET r == Chip_UnwatchLineInfo(chip, kernel, offset, fault = 1)
       IN  /\ chip' = r.c
           /\ kernel' = r.k
           /\ last' = Call("UnwatchLineInfo", <<offset>>, r.err, <<>>, r.kcall)
    /\ UNCHANGED <<line, watcher>>

\* The info of a watched line changes and the running info watcher calls the
\* handler registered for it, if any.
InfoChanged(o) ==
    /\ o \in kernel.watched
    /\ chip.iw = "running"
    /\ last' = Call("InfoChanged", <<o>>, Nil, <<infoChangeHandler(chip, o)>>, "none")
    /\ UNCHANGED <<kernel, chip, line, watcher>>

\* Offset lists with an offset that is not a line of the chip: alone, last
\* and first in the list.
BadOffsetLists == {<<ChipLines>>, <<0, ChipLines>>, <<-1, 0>>}

\* Offsets given to the chip's info calls: a line of the chip and both ends
\* of what lies outside.
InfoOffsets == {-1, 0, ChipLines}

\* Info change handlers.
Handlers == 1 .. 2

ChipRequestOptionLists == {<<>>, <<AsOutput(<<1>>)>>, <<WithBothEdges>>}

\* A request is made through the chip, open or closed, with good and bad offsets.
ChipRequest ==
    /\ CanRequest
    /\ \E kind \in {"Line", "Lines"}, offsets \in {<<0>>} \cup BadOffsetLists,
          options \in ChipRequestOptionLists, fault \in 0 .. 1 :
            RequestLines(kind, offsets, options, fault)

NextChip ==
    \/ ChipRequest
    \/ Close
    \/ /\ IsLine
       /\ Value(0)
    \/ /\ IsLine
       /\ \E value \in 0 .. 1 : SetValue(value, 0)
    \/ ChipClose
    \/ ChipCloseStep
    \/ \E offset \in InfoOffsets, fault \in 0 .. 1 : ChipLineInfo(offset, fault)
    \/ \E offset \in InfoOffsets, lich \in Handlers, fault \in 0 .. 2 :
          WatchLineInfo(offset, lich, fault)
    \/ \E offset \in InfoOffsets, fault \in 0 .. 1 : UnwatchLineInfo(offset, fault)
    \/ \E o \in Offsets : InfoChanged(o)

SpecChip == Init /\ [][NextChip]_vars

(***************************************************************************)
(* Requests made one after the other through chips opened with different   *)
(* defaults.                                                               *)
(***************************************************************************)
\* The chip options of NewChip: none, a consumer label, a line configuration
\* and an ABI version.
ChipOptionLists == {<<>>, <<WithConsumer(ChipConsumer)>>, <<AsActiveLow>>, <<WithABI(1)>>}

InitRequest ==
    /\ kernel \in {[abi |-> a, dir |-> [o \in Offsets |-> LineDirectionInput],
                    level |-> [o \in Offsets |-> 0], attr |-> KAttrNone, fds |-> <<>>,
                    watched |-> {}, events |-> <<>>, reported |-> <<>>, chips |-> 0,
                    stale |-> FALSE] :
                   a \in 1 .. 2}
    /\ chip \in {NewChipWith(kernel, options) : options \in ChipOptionLists}
    /\ line = NoLine
    /\ watcher = NoWatcher
    /\ last = Call("NewChip", <<>>, Nil, <<>>, "none")

\* The options of the requests: none, each field of the defaults overridden,
\* edge detection, and a bias and a drive the kernel refuses without a
\* direction that goes with it.
LineOptionLists ==
    {<<>>, <<WithConsumer(LineConsumer)>>, <<AsActiveHigh>>, <<AsActiveLow>>,
     <<AsOutput(<<1>>)>>, <<WithBothEdges>>, <<AsIs, WithPullUp>>,
     <<AsInput, AsOpenDrain>>, <<WithABI(1)>>, <<WithABI(2)>>}

\* The offsets of the requests: one line, and the most lines of a request.
RequestOffsetLists == {Run(0, 1), RunDown(1, Min(MaxLines, ChipLines))}

\* No request is open: none was made, or the last one failed or was closed.
CanRequestAgain == (IF line = NoLine THEN TRUE ELSE line.closed) /\ kernel.fds = <<>>

RequestAgain ==
    /\ CanRequestAgain
    /\ \E kind \in {"Line", "Lines"}, offsets \in RequestOffsetLists,
          options \in LineOptionLists, fault \in 0 .. 1 :
            RequestLines(kind, offsets, options, fault)

NextRequest ==
    \/ RequestAgain
    \/ Close

SpecRequest == InitRequest /\ [][NextRequest]_vars

(***************************************************************************)
(* Requests with an event watcher.  The watcher is a goroutine of its own: *)
(* it waits for its descriptors, reads the event of one that is ready and  *)
(* calls the handler of the request with it, and exits when it is told to  *)
(* stop.  Close is two steps here: up to the watcher's Close, which waits  *)
(* for the watcher to exit, and from there on.                             *)
(***************************************************************************)

\* Most events the kernel reports in one behaviour.
MaxEvents == 2

\* What a handler does with its event: it returns, or it reads the value of
\* its own request before it returns.
EventHandlers == {"eh", "eh.Value"}

\* The options of the watched requests: each kind of edge detection, on
\* active-high and active-low lines, and none, on an input and an output.
WatchOptionLists ==
    {<<WithBothEdges>>, <<WithFallingEdge>>, <<WithRisingEdge>>,
     <<AsActiveLow, WithBothEdges>>, <<>>, <<AsOutput(<<1>>)>>}

\* The offsets of the watched requests: line 2, and the most lines of a request.
WatchOffsetLists == {Run(2, 1), RunDown(1, Min(MaxLines, ChipLines))}

WatchRequest ==
    /\ CanRequest
    /\ \E kind \in {"Line", "Lines"}, offsets \in WatchOffsetLists,
          options \in WatchOptionLists :
            RequestLines(kind, offsets, options, 0)

\* The world drives a requested input line to the other level, and the
\* kernel reports the edge if it is one the request detects.
Edge(o) ==
    /\ o \in Requested(kernel)
    /\ kernel.dir[o] = LineDirectionInput
    /\ Len(kernel.reported) < MaxEvents
    /\ kernel' = KToggle(kernel, o)
    /\ last' = Call("Edge", <<o>>, Nil, <<>>, "none")
    /\ UNCHANGED <<chip, line, watcher>>

\* The LineEvent the watcher makes of a kernel event: an ABI v2 event names
\* its line, an ABI v1 event is the event of the line of its descriptor.
watcher_event(w, e) ==
    [Offset |-> IF w.kind = "v1" THEN w.evtfds[e.fd] ELSE e.offset, Type |-> e.type]

\* The watcher reads the event of a ready descriptor and calls the handler
\* with it, in its own goroutine and with no lock of the request held.
Dispatch(h) ==
    /\ watcher.pc = "wait"
    /\ kernel.events # <<>>
    /\ Head(kernel.events).fd \in watcher.fds
    /\ LET r == KReadEvent(kernel)
           evt == watcher_event(watcher, r.evt)
       IN  /\ kernel' = r.k
           /\ watcher' = IF r.err # Nil THEN watcher
                         ELSE [watcher EXCEPT !.pc = h, !.evt = <<evt>>,
                                              !.log = Append(@, evt)]
           /\ last' = Call("ReadEvent", <<r.evt.fd>>, r.err,
                           IF r.err = Nil THEN <<evt>> ELSE <<>>, "ReadEvent")
    /\ UNCHANGED <<chip, line>>

\* The handler calls Value of its own request, which takes the request's lock.
HandlerValue ==
    /\ watcher.pc = "eh.Value"
    /\ line.mu = "free"
    /\ LET r == Line_Value(line, kernel, FALSE)
       IN  last' = Call("Value", <<>>, r.err, <<r.ret>>, r.kcall)
    /\ watcher' = [watcher EXCEPT !.pc = "eh"]
    /\ UNCHANGED <<kernel, chip, line>>

\* The handler returns and the watcher waits for the next event.
HandlerReturn ==
    /\ watcher.pc = "eh"
    /\ watcher' = [watcher EXCEPT !.pc = "wait", !.evt = <<>>]
    /\ last' = Call("eh", <<>>, Nil, <<>>, "none")
    /\ UNCHANGED <<kernel, chip, line>>

\* The watcher, told to stop, leaves its loop.
WatcherExit ==
    /\ watcher.pc = "wait"
    /\ watcher.done
    /\ watcher' = [watcher EXCEPT !.pc = "exited"]
    /\ last' = Call("watch", <<>>, Nil, <<>>, "none")
    /\ UNCHANGED <<kernel, chip, line>>

\* The watcher's Close returns once the watcher has left its loop.
watcher_Stopped(w) == w.pc = "exited"

\* l.Close() is called.
CloseBegin ==
    /\ line # NoLine
    /\ line.mu = "free"
    /\ LET r == baseLine_Close_enter(line, watcher, kernel)
       IN  /\ line' = r.l
           /\ watcher' = r.w
           /\ kernel' = r.k
           /\ last' = Call("Close", <<>>, r.err, <<r.returned>>, "none")
    /\ UNCHANGED chip

\* l.Close() returns.
CloseEnd ==
    /\ line # NoLine
    /\ line.mu = "Close"
    /\ watcher_Stopped(watcher)
    /\ LET r == baseLine_Close_leave(line, watcher, kernel)
       IN  /\ line' = r.l
           /\ watcher' = r.w
           /\ kernel' = r.k
           /\ last' = Call("Close", <<>>, r.err, <<TRUE>>, "none")
    /\ UNCHANGED chip

\* The caller's goroutine is free to call the request: it holds no lock.
CanCall == line # NoLine /\ line.mu = "free"

NextWatch ==
    \/ WatchRequest
    \/ \E o \in Offsets : Edge(o)
    \/ \E h \in EventHandlers : Dispatch(h)
    \/ HandlerValue
    \/ HandlerReturn
    \/ WatcherExit
    \/ CloseBegin
    \/ CloseEnd
    \/ CanCall /\ IsLine /\ Value(0)
    \/ CanCall /\ IsLine /\ SetValue(1, 0)
    \/ CanCall /\ IsLines /\ Values(MaxLines, 0)
    \/ CanCall /\ IsLines /\ SetValues(<<1>>, 0)
    \/ CanCall /\ Reconfigure(<<AsActiveLow>>, 0)

SpecWatch == Init /\ [][NextWatch]_vars

(***************************************************************************)
(* The monitoring tool: it requests lines with edge detection and a        *)
(* handler that hands each event to the main goroutine over an unbuffered  *)
(* channel, counts the events it receives, and once num-events are counted *)
(* leaves its wait loop, closes the request and the chip, and exits.       *)
(***************************************************************************)

\* num-events: the number of events after which the tool exits, fewer than
\* the kernel reports.
NumEvents == MaxEvents - 1

\* makeOpts: the options for the active-low, falling-edge and rising-edge flags.
makeOpts(activeLow, falling, rising) ==
    (IF activeLow THEN <<AsActiveLow>> ELSE <<>>)
        \o <<IF rising = falling THEN WithBothEdges
              ELSE IF rising THEN WithRisingEdge ELSE WithFallingEdge>>

\* main up to the request: the chip is opened with the tool's consumer label.
InitTool ==
    /\ kernel \in {[abi |-> a, dir |-> [o \in Offsets |-> LineDirectionInput],
                    level |-> [o \in Offsets |-> 0], attr |-> KAttrNone, fds |-> <<>>,
                    watched |-> {}, events |-> <<>>, reported |-> <<>>, chips |-> 0,
                    stale |-> FALSE] :
                   a \in 1 .. 2}
    /\ chip = NewChipWith(kernel, <<WithConsumer("gpiomon")>>)
    /\ line = NoLine
    /\ watcher = NoWatcher
    /\ last = Call("NewChip", <<>>, Nil, <<>>, "none")

\* main requests the lines; the tool dies if the request fails.
ToolRequest ==
    /\ CanRequest
    /\ last.op = "NewChip"
    /\ \E offsets \in WatchOffsetLists, activeLow \in BOOLEAN, falling \in BOOLEAN,
          rising \in BOOLEAN, fault \in 0 .. 1 :
            RequestLines("Lines", offsets, makeOpts(activeLow, falling, rising), fault)

\* count of wait: the events main has received.  The handler has been called
\* with every event of the log, and is still sending the last one while it
\* is at "eh.send".
count == Len(watcher.log) - (IF watcher.pc = "eh.send" THEN 1 ELSE 0)

\* main is in the loop of wait.
InWait == line # NoLine /\ ~line.closed /\ count < NumEvents

\* wait receives the event the handler sends, and the handler returns.
ToolReceive ==
    /\ InWait
    /\ watcher.pc = "eh.send"
    /\ watcher' = [watcher EXCEPT !.pc = "wait", !.evt = <<>>]
    /\ last' = Call("wait", <<>>, Nil, watcher.evt, "none")
    /\ UNCHANGED <<kernel, chip, line>>

\* wait has returned, and main runs the deferred l.Close().
ToolCloseLine ==
    /\ line # NoLine /\ ~line.closed
    /\ count >= NumEvents
    /\ CloseBegin

\* l.Close() has returned, and main runs the deferred c.Close().
ToolCloseChip ==
    /\ line # NoLine /\ line.closed /\ line.mu = "free"
    /\ ~chip.closed
    /\ ChipClose

NextTool ==
    \/ ToolRequest
    \/ \E o \in Offsets : Edge(o)
    \/ Dispatch("eh.send")
    \/ ToolReceive
    \/ WatcherExit
    \/ ToolCloseLine
    \/ CloseEnd
    \/ ToolCloseChip
    \/ ChipCloseStep

SpecTool == InitTool /\ [][NextTool]_vars

(***************************************************************************)
(* The info watcher of the chip.  Its goroutine reads the change of a      *)
(* watched line, looks the handler of the line up under the chip's lock    *)
(* and calls it with the lock released; the handler may call the chip.     *)
(* Every method of the chip but Close is one step under the lock.  Close   *)
(* releases the lock and then closes the info watcher, which returns once  *)
(* the goroutine of the watcher has stopped.                               *)
(***************************************************************************)

\* The lines watched.
WatchedOffsets == 0 .. 1

\* The info watcher reads a change of line o and looks its handler up.
InfoWatcherRead(o) ==
    /\ o \in kernel.watched
    /\ chip.iw = "running"
    /\ chip.iwpc = "idle"
    /\ chip' = infoWatcher_lookup(chip, o)
    /\ last' = Call("lic", <<o>>, Nil, <<chip.ich[o]>>, "none")
    /\ UNCHANGED <<kernel, line, watcher>>

\* The info watcher calls the handler it found.
InfoHandlerCall ==
    /\ chip.iwpc = "call"
    /\ chip' = [chip EXCEPT !.iwpc = "ich"]
    /\ last' = Call("ich", chip.iwevt, Nil, <<>>, "none")
    /\ UNCHANGED <<kernel, line, watcher>>

\* The handler calls c.Close().
InfoHandlerClose ==
    /\ chip.iwpc = "ich"
    /\ LET r == Chip_Close_enter(chip)
       IN  /\ chip' = IF r.err = Nil THEN [r.c EXCEPT !.iwpc = "ich.Close"] ELSE r.c
           /\ last' = Call(IF r.err = Nil THEN "Chip.Close:unlocked" ELSE "Chip.Close",
                           <<>>, r.err, <<>>, "none")
    /\ UNCHANGED <<kernel, line, watcher>>

\* The handler returns, and the info watcher waits for the next change.
InfoHandlerReturn ==
    /\ chip.iwpc = "ich"
    /\ chip' = [chip EXCEPT !.iwpc = "idle", !.iwevt = <<>>]
    /\ last' = Call("ich:return", <<>>, Nil, <<>>, "none")
    /\ UNCHANGED <<kernel, line, watcher>>

\* The info watcher's close returns: there is no watcher running, or its
\* goroutine is waiting for a change and stops.
infoWatcher_Stopped(c) == c.iw # "running" \/ c.iwpc = "idle"

\* The next step of a c.Close() that goes on: the close of the info watcher
\* once it can return, then the close of the chip file.
InfoChipCloseStep ==
    /\ chip.pc = "unlocked" => infoWatcher_Stopped(chip)
    /\ ChipCloseStep

NextInfoWatch ==
    \/ CanRequest /\ RequestLines("Line", <<0>>, <<>>, 0)
    \/ ChipLineInfo(0, 0)
    \/ \E offset \in WatchedOffsets, lich \in Handlers, fault \in 0 .. 2 :
          WatchLineInfo(offset, lich, fault)
    \/ \E offset \in WatchedOffsets, fault \in 0 .. 1 : UnwatchLineInfo(offset, fault)
    \/ \E o \in Offsets : InfoWatcherRead(o)
    \/ InfoHandlerCall
    \/ InfoHandlerClose
    \/ InfoHandlerReturn
    \/ ChipClose
    \/ InfoChipCloseStep

SpecInfoWatch == Init /\ [][NextInfoWatch]_vars

(***************************************************************************)
(* The package-level FindLine.  The system has NumChips chips, gpiochip1   *)
(* and up; the named line is line off of chip where, or of no chip when    *)
(* where is 0; the chips of fails cannot be opened, and on the chips of    *)
(* bad the line info query fails.  kernel.chips counts the chip files      *)
(* that are open.                                                          *)
(***************************************************************************)

\* Number of chips of the system.
NumChips == 2

\* Most chip files left open before a search starts.
MaxOpenChips == 2

ErrLineNotFound == "ErrLineNotFound"

\* Chip.FindLine on chip i: the lines are queried in turn until the name is
\* found; a query that fails ends the search with its error.
Chip_FindLine(i, where, off, bad) ==
    IF i \in bad THEN [o |-> 0, err |-> EIO]
    ELSE IF where = i THEN [o |-> off, err |-> Nil]
    ELSE [o |-> 0, err |-> ErrLineNotFound]

\* findLine, from chip i on: each chip is opened and searched, and the first
\* chip that has the line is returned, open.
RECURSIVE findLine(_, _, _, _, _, _)
findLine(k, i, where, off, fails, bad) ==
    IF i > NumChips THEN [k |-> k, c |-> 0, o |-> 0, err |-> ErrLineNotFound]
    ELSE IF i \in fails THEN findLine(k, i + 1, where, off, fails, bad)
    ELSE LET k1 == KOpenChip(k)
             r == Chip_FindLine(i, where, off, bad)
         IN  IF r.err = Nil THEN [k |-> k1, c |-> i, o |-> r.o, err |-> Nil]
             ELSE findLine(k1, i + 1, where, off, fails, bad)

\* FindLine: the chip found is closed and its name returned with the offset.
FindLine(k, where, off, fails, bad) ==
    LET r == findLine(k, 1, where, off, fails, bad)
    IN  IF r.err # Nil THEN [k |-> r.k, ret |-> <<0, 0>>, err |-> r.err]
        ELSE [k |-> KReleaseChip(r.k), ret |-> <<r.c, r.o>>, err |-> Nil]

\* gpiod.FindLine(lname)
FindLineCall(where, off, fails, bad) ==
    /\ kernel.chips <= MaxOpenChips
    /\ LET r == FindLine(kernel, where, off, fails, bad)
       IN  /\ kernel' = r.k
           /\ last' = Call("FindLine", <<where, off, fails, bad>>, r.err, r.ret, "none")
    /\ UNCHANGED <<chip, line, watcher>>

NextFind ==
    \E where \in 0 .. NumChips, off \in Offsets,
       fails \in SUBSET (1 .. NumChips), bad \in SUBSET (1 .. NumChips) :
          FindLineCall(where, off, fails, bad)

SpecFind == Init /\ [][NextFind]_vars

(***************************************************************************)
(* The encoding of a LineConfig into ABI v1 handle flags, for every        *)
(* configuration of the direction, drive and bias fields and of the bits   *)
(* that mark them.                                                         *)
(***************************************************************************)
LineConfigs ==
    [Flags : SUBSET {"ActiveLow", "Direction", "Drive", "Bias"},
     Direction : {LineDirectionInput, LineDirectionOutput},
     Drive : {LineDrivePushPull, LineDriveOpenDrain, LineDriveOpenSource},
     Bias : {LineBiasDisabled, LineBiasPullUp, LineBiasPullDown},
     EdgeDetection : {LineEdgeNone},
     Debounce : {0}]

\* lineConfigToHandleFlags(lc)
Encode(lc) ==
    /\ last' = Call("lineConfigToHandleFlags", <<lc>>, Nil, lineConfigToHandleFlags(lc), "none")
    /\ UNCHANGED <<kernel, chip, line, watcher>>

NextEncode == \E lc \in LineConfigs : Encode(lc)

SpecEncode == Init /\ [][NextEncode]_vars

(***************************************************************************)
(* The ABI version of the chip: the chip is opened with or without a       *)
(* version, on a kernel with or without ABI v2, and is then queried,       *)
(* watched and asked for lines, with and without a version for the         *)
(* request.                                                                *)
(***************************************************************************)
ABIOptionLists == {<<>>, <<WithABI(1)>>, <<WithABI(2)>>}

InitABI ==
    /\ kernel \in {[abi |-> a, dir |-> [o \in Offsets |-> LineDirectionInput],
                    level |-> [o \in Offsets |-> 0], attr |-> KAttrNone, fds |-> <<>>,
                    watched |-> {}, events |-> <<>>, reported |-> <<>>, chips |-> 0,
                    stale |-> FALSE] :
                   a \in 1 .. 2}
    /\ \E options \in ABIOptionLists :
          /\ chip = NewChipWith(kernel, options)
          /\ last = Call("NewChip", options, Nil, <<>>, "none")
    /\ line = NoLine
    /\ watcher = NoWatcher

ABIRequest ==
    /\ CanRequestAgain
    /\ \E options \in ABIOptionLists \cup {<<WithBothEdges>>, <<AsOutput(<<1>>)>>},
          fault \in 0 .. 1 :
            RequestLines("Line", <<0>>, options, fault)

NextABI ==
    \/ ABIRequest
    \/ Close
    \/ \E fault \in 0 .. 1 : ChipLineInfo(0, fault)
    \/ \E lich \in Handlers, fault \in 0 .. 2 : WatchLineInfo(0, lich, fault)
    \/ UnwatchLineInfo(0, 0)

SpecABI == InitABI /\ [][NextABI]_vars

(***************************************************************************)
(* Properties.                                                             *)
(***************************************************************************)
\* The step is a call of op: every call records itself in last, and the one
\* step that is not a call leaves last alone.
Called(op) == last'.op = op /\ ~(\E o \in Offsets : ExternalToggle(o))

IsOpen == line # NoLine /\ ~line.closed

IsClosed == line # NoLine /\ line.closed

\* C1: the Close of an open request returns no error and closes it, every
\* Close of a closed request returns ErrClosed and changes nothing, and a
\* closed request stays closed whatever is called on it.
C1_CloseOnce ==
    [][/\ (IsClosed => line' # NoLine /\ line'.closed)
       /\ (Called("Close") /\ IsOpen => last'.err = Nil /\ line'.closed)
       /\ (Called("Close") /\ IsClosed => last'.err = ErrClosed /\ line' = line)]_vars

\* A second Close has been refused.
C1_Witness == IsClosed /\ last.op = "Close" /\ last.err = ErrClosed

\* C2: once the request is closed, every call on it returns an error.
C2_NoOperationAfterClose ==
    IsClosed /\ last.op \in {"Value", "Values", "SetValue", "SetValues", "Info", "Reconfigure"}
        => last.err # Nil

\* C3: SetValue and SetValues on a closed request return ErrClosed, whatever
\* the cached direction.
C3_SetValueAfterClose ==
    IsClosed /\ last.op \in {"SetValue", "SetValues"} => last.err = ErrClosed

\* The request was made with edge detection.
EdgeDetectionEnabled == line # NoLine /\ line.config.EdgeDetection # LineEdgeNone

\* C4: Reconfigure of a request with edge detection returns EINVAL, issues
\* no kernel call and leaves the request as it was, under both ABIs.
C4_ReconfigureWithEdges ==
    [][Called("Reconfigure") /\ EdgeDetectionEnabled
         => last'.err = EINVAL /\ last'.kcall = "none" /\ line' = line]_vars

IsOutput == line # NoLine /\ line.config.Direction = LineDirectionOutput

\* C5: on an open output Line, a Value that follows a successful SetValue(v)
\* returns v.
C5_SetValueThenValue ==
    [][IsOpen /\ IsOutput /\ last.op = "SetValue" /\ last.err = Nil
       /\ Called("Value") /\ last'.err = Nil
         => last'.ret = last.arg]_vars

\* The value line i of a request reads after values vs were written to it.
Written(vs, i) == IF i <= Len(vs) THEN vs[i] ELSE 0

\* C6: on an open output Lines request, a Values that follows SetValues(vs)
\* (the kernel being in order) reads vs[i] on line i, and inactive on the
\* lines beyond len(vs).
C6_SetValuesThenValues ==
    [][IsOpen /\ IsOutput /\ last.op = "SetValues" /\ last.err # EIO
       /\ Called("Values") /\ last'.err = Nil
         => \A i \in 1 .. Min(Len(last'.ret), Len(line.offsets)) :
                last'.ret[i] = Written(last.arg, i)]_vars

\* C7: Values on an open Lines request fills the first min(len(buffer),
\* lineCount) slots with the active states of the requested offsets in
\* request order and leaves the rest of the buffer alone; on an error it
\* leaves all of it alone.
C7_ValuesFillsBuffer ==
    [][IsOpen /\ Called("Values")
         => \A i \in 1 .. Len(last'.ret) :
                last'.ret[i] = IF last'.err = Nil /\ i <= Len(line.offsets)
                               THEN Active(kernel, line.offsets[i])
                               ELSE Untouched]_vars

\* The direction the last direction option of a list asks for, or none.
RECURSIVE DirectionAsked(_)
DirectionAsked(options) ==
    IF options = <<>> THEN "none"
    ELSE LET o == options[Len(options)]
         IN  IF o.opt = "AsOutput" THEN LineDirectionOutput
             ELSE IF o.opt = "AsInput" THEN LineDirectionInput
             ELSE DirectionAsked(SubSeq(options, 1, Len(options) - 1))

\* C8: SetValue and SetValues on an open request that is not an output return
\* ErrPermissionDenied, issue no kernel call and change nothing; on an output
\* they are not refused.  The direction that counts is the one the last
\* successful Reconfigure asked for.
C8_SetValueNeedsOutput ==
    [][/\ (IsOpen /\ ~IsOutput /\ (Called("SetValue") \/ Called("SetValues"))
             => /\ last'.err = ErrPermissionDenied
                /\ last'.kcall = "none"
                /\ line' = line
                /\ kernel' = kernel)
       /\ (IsOpen /\ IsOutput /\ (Called("SetValue") \/ Called("SetValues"))
             => last'.err # ErrPermissionDenied /\ last'.kcall # "none")
       /\ (Called("Reconfigure") /\ last'.err = Nil /\ DirectionAsked(last'.arg) # "none"
             => line'.config.Direction = DirectionAsked(last'.arg))]_vars

\* A write to a request that is not an output has been refused.
C8_Witness ==
    /\ IsOpen /\ ~IsOutput
    /\ last.op \in {"SetValue", "SetValues"}
    /\ last.err = ErrPermissionDenied

SetConfigCalls == {"SetLineConfig", "SetLineConfigV2"}

InfoReflects(ic, lc) ==
    /\ ("Direction" \in lc.Flags => ic.Direction = lc.Direction)
    /\ ("ActiveLow" \in ic.Flags) = ("ActiveLow" \in lc.Flags)
    /\ (lc.Direction = LineDirectionOutput /\ "Drive" \in lc.Flags => ic.Drive = lc.Drive)

\* C10: an Info that follows a successful Reconfigure returns, for every
\* line, the configuration the request now has.
C10_InfoAfterReconfigure ==
    [][IsOpen /\ last.op = "Reconfigure" /\ last.arg # <<>> /\ last.err = Nil
       /\ Called("Info") /\ last'.err = Nil
         => \A i \in 1 .. Len(last'.ret) :
                InfoReflects(last'.ret[i].Config, line.config)]_vars

\* C11: of the calls of Chip.Close the one that finds the chip open goes on,
\* every other returns ErrClosed and changes nothing; a closed chip stays
\* closed; and the chip file is closed by the call that went on, once the
\* info watcher, if there is one, is no longer running.
C11_ChipCloseOnce ==
    [][/\ (chip.closed => chip'.closed)
       /\ (Called("Chip.Close:unlocked") => ~chip.closed /\ chip'.closed)
       /\ (Called("Chip.Close") /\ last'.err # Nil
             => chip.closed /\ last'.err = ErrClosed /\ chip' = chip /\ kernel' = kernel)
       /\ (chip.f /\ ~chip'.f
             => chip.iw # "running" /\ Called("Chip.Close") /\ last'.err = Nil)
       /\ (~chip.f => ~chip'.f /\ chip'.iw = chip.iw)]_vars

\* The chip was closed with its info watcher created, and closed again.
C11_Witness ==
    ~chip.f /\ chip.iw = "closed" /\ last.op = "Chip.Close" /\ last.err = ErrClosed

\* The step is one of Chip.Close.
ChipCloseSteps ==
    Called("Chip.Close") \/ Called("Chip.Close:unlocked") \/ Called("Chip.Close:iw")

\* The kernel as a request sees it: its lines and descriptors.
RequestView(k) == [dir |-> k.dir, level |-> k.level, attr |-> k.attr, fds |-> k.fds]

\* Calls on request l with kernel k1 do what they do with kernel k2.
SameCalls(l, k1, k2) ==
    /\ \A f \in BOOLEAN : Line_Value(l, k1, f) = Line_Value(l, k2, f)
    /\ \A v \in 0 .. 1, f \in BOOLEAN :
          LET a == Line_SetValue(l, k1, v, f)
              b == Line_SetValue(l, k2, v, f)
          IN  a.l = b.l /\ a.err = b.err /\ RequestView(a.k) = RequestView(b.k)
    /\ \A options \in ReconfigOptionLists, f \in BOOLEAN :
          LET a == baseLine_Reconfigure(l, k1, options, f)
              b == baseLine_Reconfigure(l, k2, options, f)
          IN  a.l = b.l /\ a.err = b.err /\ RequestView(a.k) = RequestView(b.k)
    /\ LET a == baseLine_Close(l, watcher, k1)
           b == baseLine_Close(l, watcher, k2)
       IN  a.l = b.l /\ a.err = b.err /\ a.w = b.w /\ RequestView(a.k) = RequestView(b.k)

C13_NoOperationOnClosedChip ==
    chip.closed /\ last.op \in {"Chip.LineInfo", "WatchLineInfo", "RequestLines"}
        => last.err # Nil /\ last.kcall = "none"

\* RequestLines rejects every offset list with an offset outside the chip.
RequestLinesRejects ==
    \A kind \in {"Lines"}, offsets \in BadOffsetLists,
       options \in ChipRequestOptionLists, fault \in 0 .. 1 :
          LET r == Chip_RequestLines(chip, kernel, kind, offsets, options, fault)
          IN  /\ r.err = ErrInvalidOffset
              /\ r.kcall = "none"
              /\ r.line = NoLine /\ r.watcher = NoWatcher /\ r.k = kernel

\* LineInfo rejects every offset outside the chip.
LineInfoRejects ==
    \A offset \in InfoOffsets \ Offsets, fault \in BOOLEAN :
          LET r == Chip_LineInfo(chip, kernel, offset, fault)
          IN  r.err = ErrInvalidOffset /\ r.kcall = "none"

\* C14: RequestLines rejects an offset list with an offset outside the chip
\* with ErrInvalidOffset, issuing no kernel call and requesting nothing, and
\* so does LineInfo of an open chip with such an offset.
C14_InvalidOffsets ==
    RequestLinesRejects /\ (~chip.closed => LineInfoRejects)

\* A list with an offset outside the chip was rejected and nothing requested.
C14_Witness ==
    /\ last.op = "RequestLines" /\ last.err = ErrInvalidOffset
    /\ line = NoLine /\ kernel.fds = <<>>

\* C14 as first stated: LineInfo answers ErrInvalidOffset whatever the chip.
C14_Original == RequestLinesRejects /\ LineInfoRejects

\* C19: WatchLineInfo for a line that has a handler registers the new
\* handler in place of it (the kernel being in order).
C19_WatchReplacesHandler ==
    [][Called("WatchLineInfo") /\ ~chip.closed /\ last'.err # EIO
       /\ last'.arg[1] \in Offsets /\ chip.ich[last'.arg[1]] # NoHandler
         => last'.err = Nil /\ chip'.ich[last'.arg[1]] = last'.arg[2]]_vars

\* What the kernel answers to an unwatch of offset o.
UnwatchAnswer(o) ==
    IF o \notin Offsets THEN EINVAL
    ELSE IF o \notin kernel.watched THEN EBUSY
    ELSE Nil

\* C20: UnwatchLineInfo on a closed chip returns no error, issues no kernel
\* call and changes nothing; on an open chip it removes the handler of the
\* offset, issues the unwatch call and returns its error; and a
\* WatchLineInfo of the offset that follows a successful one succeeds.
C20_Unwatch ==
    [][/\ (Called("UnwatchLineInfo") /\ chip.closed
             => /\ last'.err = Nil /\ last'.kcall = "none"
                /\ chip' = chip /\ kernel' = kernel)
       /\ (Called("UnwatchLineInfo") /\ ~chip.closed
             => /\ last'.kcall = "UnwatchLineInfo"
                /\ last'.err \in {UnwatchAnswer(last'.arg[1]), EIO}
                /\ \A o \in Offsets :
                      chip'.ich[o] = IF o = last'.arg[1] THEN NoHandler ELSE chip.ich[o])
       /\ (last.op = "UnwatchLineInfo" /\ last.err = Nil /\ ~chip.closed
            /\ Called("WatchLineInfo") /\ last'.arg[1] = last.arg[1] /\ last'.err # EIO
             => last'.err = Nil /\ chip'.ich[last'.arg[1]] = last'.arg[2])]_vars

\* The watch of a line was removed.
C20_Witness ==
    /\ ~chip.closed /\ last.op = "UnwatchLineInfo" /\ last.err = Nil
    /\ chip.ich[last.arg[1]] = NoHandler

\* C15: a RequestLines that returns a request for N offsets took one path:
\* with ABI v2 in effect the one GetLine call, and one line descriptor serves
\* the N offsets; with ABI v1 and edge detection asked for the GetLineEvent
\* calls, one event descriptor per offset in the order of the offsets; with
\* ABI v1 otherwise the one GetLineHandle call and one handle descriptor.
C15_RequestPaths ==
    [][Called("RequestLines") /\ last'.err = Nil
         => LET lo == last'.ret[1]
                n == Len(line'.offsets)
                edges == lo.Config.EdgeDetection # LineEdgeNone
                one(t) == kernel'.fds = <<[type |-> t, offsets |-> line'.offsets,
                                           open |-> TRUE]>>
            IN  /\ lo.abi = 2 => last'.kcall = "GetLine" /\ one("line")
                /\ lo.abi # 2 /\ edges
                     => /\ last'.kcall = "GetLineEvent"
                        /\ kernel'.fds = [i \in 1 .. n |->
                                            [type |-> "event",
                                             offsets |-> <<line'.offsets[i]>>,
                                             open |-> TRUE]]
                /\ lo.abi # 2 /\ ~edges => last'.kcall = "GetLineHandle" /\ one("handle")]_vars

\* Several lines were requested with edge detection under ABI v1.
C15_Witness ==
    /\ last.op = "RequestLines" /\ last.err = Nil /\ last.kcall = "GetLineEvent"
    /\ Len(line.offsets) > 1 /\ Len(kernel.fds) = Len(line.offsets)

\* C16: a request that RequestLines returns with edge detection in its
\* options has an event watcher on every descriptor of the request, and the
\* watcher has not been closed.
C16_EdgeRequestHasWatcher ==
    [][Called("RequestLines") /\ last'.err = Nil
       /\ last'.ret[1].Config.EdgeDetection # LineEdgeNone
         => /\ line'.watcher
            /\ watcher'.kind = (IF line'.abi = 2 THEN "v2" ELSE "v1")
            /\ ~watcher'.closed
            /\ watcher'.fds = {fd \in 1 .. Len(kernel'.fds) : FdOpen(kernel', fd)}
            /\ watcher'.fds # {}]_vars

\* A request with edge detection was returned under ABI v2.
C16_Witness ==
    /\ last.op = "RequestLines" /\ last.err = Nil /\ last.kcall = "GetLine"
    /\ line.config.EdgeDetection = LineEdgeBoth /\ watcher.kind = "v2"

\* What the kernel answers to the first call RequestLines issues for the
\* offsets and options given.
KernelRequestAnswer(c, k, offsets, options, fault) ==
    LET lo == requestOptions(c, offsets, options)
    IN  IF lo.abi = 2 THEN KGetLine(k, offsets, lo.Config, lo.values, fault).err
        ELSE IF lo.eh
             THEN KGetLineEvent(k, offsets[1], lineConfigToHandleFlags(lo.Config),
                                lineConfigToEventFlag(lo.Config), fault).err
        ELSE KGetLineHandle(k, offsets, lineConfigToHandleFlags(lo.Config),
                            lo.values, fault).err

\* RequestLines returns the error of the kernel and no request.
RequestErrors ==
    \A offsets \in RequestOffsetLists, options \in LineOptionLists, fault \in BOOLEAN :
        LET r == Chip_RequestLines(chip, kernel, "Lines", offsets, options,
                                   IF fault THEN 1 ELSE 0)
            e == KernelRequestAnswer(chip, kernel, offsets, options, fault)
        IN  e # Nil => r.err = e /\ r.line = NoLine /\ r.watcher = NoWatcher

\* The calls on an open request and the info call of the chip return the
\* error of their kernel call.
CallErrors ==
    /\ \A fault \in BOOLEAN :
          LET r == Chip_LineInfo(chip, kernel, 0, fault)
          IN  r.err = IF fault THEN EIO
                      ELSE IF chip.options.abi = 2 /\ kernel.abi # 2 THEN EINVAL ELSE Nil
    /\ line # NoLine =>
          \A fault \in BOOLEAN :
             /\ Line_Value(line, kernel, fault).kcall # "none"
                  => Line_Value(line, kernel, fault).err =
                        IF line.abi = 1 THEN KGetLineValues(kernel, line.vfd, fault).err
                        ELSE KGetLineValuesV2(kernel, line.vfd, fault).err
             /\ \A value \in 0 .. 1 :
                   Line_SetValue(line, kernel, value, fault).kcall # "none"
                     => Line_SetValue(line, kernel, value, fault).err =
                           IF line.abi = 1
                           THEN KSetLineValues(kernel, line.vfd, <<>>, fault).err
                           ELSE KSetLineValuesV2(kernel, line.vfd, <<value>>, fault).err
             /\ \A options \in ReconfigOptionLists :
                   LET r == baseLine_Reconfigure(line, kernel, options, fault)
                   IN  r.kcall # "none" /\ fault => r.err \in {EIO, EBADF}

Has(options, opt) == \E i \in 1 .. Len(options) : options[i].opt = opt

\* C18: the options a request is made with are the consumer label, the
\* configuration and the ABI version of the chip, except for what an option
\* of the call sets, and building them leaves the chip's defaults as they
\* were: a request without options is made with the defaults of the chip.
C18_OptionsOverlayDefaults ==
    [][Called("RequestLines") /\ last'.ret # <<>>
         => LET lo == last'.ret[1]
                options == last'.arg
                def == chip.options
            IN  /\ chip' = chip
                /\ lo.consumer = IF Has(options, "WithConsumer") THEN LineConsumer
                                 ELSE def.consumer
                /\ lo.abi = IF Has(options, "WithABI") THEN options[1].values[1]
                            ELSE def.abi
                /\ ("ActiveLow" \in lo.Config.Flags) =
                      IF Has(options, "AsActiveHigh") THEN FALSE
                      ELSE IF Has(options, "AsActiveLow") THEN TRUE
                      ELSE "ActiveLow" \in def.Config.Flags
                /\ lo.Config.Direction =
                      IF Has(options, "AsOutput") THEN LineDirectionOutput
                      ELSE IF \E i \in 1 .. Len(options) :
                                 options[i].opt \in {"AsInput", "AsIs", "WithBothEdges"}
                           THEN LineDirectionInput
                      ELSE def.Config.Direction
                /\ options = <<>>
                     => /\ lo.Config = def.Config
                        /\ lo.consumer = def.consumer
                        /\ lo.abi = def.abi]_vars

\* A request was made with a consumer label of its own through a chip opened
\* with another, which the chip still has.
C18_Witness ==
    /\ last.op = "RequestLines" /\ last.err = Nil
    /\ last.arg = <<WithConsumer(LineConsumer)>>
    /\ last.ret[1].consumer = LineConsumer
    /\ chip.options.consumer = ChipConsumer

\* C25: a SetValue or SetValues that returns no error leaves the values it
\* was given, cut to the number of lines, as the cached values and changes
\* nothing else of the request; one that returns an error leaves the
\* request as it was.
C25_ValueCache ==
    [][/\ (Called("SetValue") \/ Called("SetValues")) /\ last'.err = Nil
             => line' = [line EXCEPT !.values = Take(last'.arg, Len(line.offsets))]
       /\ (Called("SetValue") \/ Called("SetValues")) /\ last'.err # Nil
             => line' = line]_vars

\* More values than lines were written, and the cache holds one per line.
C25_Witness ==
    /\ last.op = "SetValues" /\ last.err = Nil
    /\ Len(last.arg) > Len(line.offsets)
    /\ line.values = Take(last.arg, Len(line.offsets))

\* C26: a Reconfigure whose set-config call succeeds caches the cached
\* configuration overlaid with its options and, when that is an output
\* configuration, the values it sent with the call.
C26_ReconfigureCaches ==
    [][Called("Reconfigure") /\ last'.err = Nil /\ last'.kcall # "none"
         => LET lo == applyOptions(LineOptions(line.config, line.values, line.abi),
                                   last'.arg)
                sent == Take(lo.values, Len(line.offsets))
            IN  /\ line'.config = lo.Config
                /\ lo.Config.Direction = LineDirectionOutput => line'.values = sent]_vars

\* C27: an Info of a request that has its info cached returns the cached
\* info, issues no call and opens no chip; an Info that fetches caches what
\* it returns, one snapshot per line; an Info that fails caches nothing;
\* and no chip opened by an Info is open when it returns.
C27_InfoFetchedOnce ==
    [][Called("Info")
         => /\ kernel'.chips = 0
            /\ (line.info # <<>> /\ ~line.closed
                  => /\ last'.kcall = "none" /\ last'.err = Nil
                     /\ last'.ret = line.info
                     /\ line' = line /\ kernel' = kernel)
            /\ (last'.err # Nil => line' = line)
            /\ (line.info = <<>> /\ last'.err = Nil
                  => /\ last'.kcall = "GetLineInfo"
                     /\ line'.info = last'.ret
                     /\ Len(last'.ret) = Len(line.offsets))]_vars

\* The cached info of a request was returned.
C27_Witness ==
    /\ last.op = "Info" /\ last.err = Nil /\ last.kcall = "none"
    /\ line.info # <<>> /\ last.ret = line.info

(***************************************************************************)
(* The event watcher and Close.                                            *)
(***************************************************************************)
\* The open descriptors of the requests.
OpenFds(k) == {fd \in 1 .. Len(k.fds) : k.fds[fd].open}

\* Close has returned: the request is closed and its lock is free.
CloseReturned == line # NoLine /\ line.closed /\ line.mu = "free"

\* C21: a Close of a request with a watcher returns only once the watcher has
\* stopped, with no dispatch left in flight, and from then on the handler is
\* not invoked again: the handler has been given no further event and the
\* watcher does not move.
C21_NoHandlerAfterClose ==
    [][CloseReturned
         => /\ line.watcher => watcher.pc = "exited" /\ watcher.evt = <<>>
            /\ watcher'.log = watcher.log
            /\ watcher'.pc = watcher.pc]_vars

\* Close has returned with an event delivered before it and one left that
\* the handler never gets.
C21_Witness ==
    /\ CloseReturned /\ line.watcher
    /\ watcher.log # <<>> /\ kernel.events # <<>>

\* The event the handler is to get for a kernel event.
Tag(e) == [Offset |-> e.offset, Type |-> e.type]

\* C22: the events given to the handler are the events the kernel reported
\* for the request, in that order and each tagged with the offset of its
\* line, none twice and, while the watcher has not been told to stop, none
\* missing but those that still wait in the kernel.
C22_EventsInOrder ==
    /\ Len(watcher.log) <= Len(kernel.reported)
    /\ \A i \in 1 .. Len(watcher.log) : watcher.log[i] = Tag(kernel.reported[i])
    /\ (watcher.kind # "none" /\ ~watcher.done)
          => Len(watcher.log) + Len(kernel.events) = Len(kernel.reported)

\* Both edges on offset 2: the line went inactive, then active, and the
\* handler got a falling and then a rising edge of line 2.
C22_Witness ==
    /\ line # NoLine /\ line.offsets = <<2>>
    /\ line.config.EdgeDetection = LineEdgeBoth
    /\ watcher.log = <<[Offset |-> 2, Type |-> LineEdgeFalling],
                       [Offset |-> 2, Type |-> LineEdgeRising]>>

\* The edges a request with edge detection e asks for.
EdgesOf(e) ==
    IF e = LineEdgeBoth THEN {LineEdgeRising, LineEdgeFalling}
    ELSE IF e = LineEdgeNone THEN {} ELSE {e}

\* C23: the handler is given events of the requested kind only: falling
\* edges with falling-edge detection, rising edges with rising-edge
\* detection, either with both; and the kernel detects, under either ABI,
\* the edges the request asked for.
C23_RequestedEdgesOnly ==
    /\ \A i \in 1 .. Len(watcher.log) :
            line # NoLine /\ watcher.log[i].Type \in EdgesOf(line.config.EdgeDetection)
    /\ (line # NoLine /\ ~line.closed) => kernel.attr.Edge = line.config.EdgeDetection

\* Falling-edge detection under ABI v1: line 2 rose, which gave the handler
\* nothing, and fell, which gave it the one event it has.
C23_Witness ==
    /\ line # NoLine /\ line.abi = 1 /\ line.config.EdgeDetection = LineEdgeFalling
    /\ kernel.level[2] = 0
    /\ watcher.log = <<[Offset |-> 2, Type |-> LineEdgeFalling]>>

\* C28: Close stops the watcher before any descriptor is released, and every
\* descriptor of the request is released exactly once: an ABI v1 event
\* request leaves them all to the watcher's Close and releases none itself,
\* any other request releases its one descriptor, and none is closed twice.
C28_ReleasedOnce ==
    [][/\ ~kernel'.stale
       /\ (OpenFds(kernel') # OpenFds(kernel) /\ Called("Close") /\ line.watcher)
             => /\ watcher.pc = "exited"
                /\ OpenFds(watcher_Close(watcher, kernel).k)
                      = IF line.isEvent THEN {} ELSE {line.vfd}
       /\ (Called("Close") /\ last'.err = Nil /\ last'.ret = <<TRUE>>)
             => OpenFds(kernel') = {}]_vars

\* An ABI v1 event request of two lines was closed: both event descriptors
\* are released, and none was released twice.
C28_Witness ==
    /\ last.op = "Close" /\ last.err = Nil /\ last.ret = <<TRUE>>
    /\ line.isEvent /\ Cardinality(watcher.fds) = 2
    /\ OpenFds(kernel) = {} /\ ~kernel.stale

\* The calls that reach the kernel on a descriptor of the request.
DescriptorCalls == {"Value", "Values", "SetValue", "SetValues", "Reconfigure", "ReadEvent"}

\* C29: every kernel call made for the request, by its operations and by
\* the watcher's read, is made on a descriptor that is open: none comes
\* after the descriptor was released, however the calls and Close interleave.
C29_NoCallAfterRelease ==
    [][(last'.op \in DescriptorCalls /\ last'.kcall # "none")
         => /\ FdOpen(kernel, IF last'.op = "ReadEvent" THEN last'.arg[1] ELSE line.vfd)
            /\ last'.err # EBADF]_vars

\* The watcher read an event while Close was waiting for it to stop: the
\* descriptor it read was not released yet.
C29_Witness ==
    /\ line # NoLine /\ line.closed /\ line.mu = "Close"
    /\ last.op = "ReadEvent" /\ last.err = Nil /\ FdOpen(kernel, last.arg[1])

\* C30: the handler runs with the lock of its request released, so a handler
\* that calls Value of its own request gets the lock and returns, and a Close
\* made meanwhile completes: the handler is never left waiting for a lock
\* held by a Close that waits for the watcher to stop.
C30_NoDeadlock ==
    ~(line # NoLine /\ line.mu = "Close" /\ watcher.pc = "eh.Value")

(***************************************************************************)
(* The monitoring tool.                                                    *)
(***************************************************************************)
\* C24: once num-events events are counted the tool exits: the Close of the
\* request that main then makes is never left waiting for a watcher whose
\* handler is handing a further event to the main loop, which receives no more.
C24_ToolExits ==
    ~(line # NoLine /\ line.mu = "Close" /\ count >= NumEvents /\ watcher.pc = "eh.send")

(***************************************************************************)
(* The info watcher.                                                       *)
(***************************************************************************)
\* The info watcher is calling a handler, or about to.
Dispatching == chip.iwpc \in {"call", "ich", "ich.Close"}

\* C31: the info watcher calls the handler it found registered for the
\* offset of the change, and none for an offset without one; the handler
\* runs with the chip's lock released and may call the chip: a handler that
\* calls Close is never left in a Close that waits for the info watcher,
\* which waits for the handler.
C31_HandlerMayCallChip ==
    /\ Dispatching => chip.iwevt[2] # NoHandler
    /\ ~(chip.iwpc = "ich.Close" /\ chip.pc = "unlocked" /\ chip.iw = "running")

\* C32: the chip has no info watcher until a WatchLineInfo creates it, no
\* other call creates one, the watcher once created is the watcher of the
\* chip until the chip is closed, and a WatchLineInfo that finds it keeps
\* the handlers registered, but for the offset it registers.
C32_OneInfoWatcher ==
    [][/\ chip'.iw # chip.iw
             => \/ chip.iw = "none" /\ chip'.iw = "running" /\ Called("WatchLineInfo")
                \/ chip.iw = "running" /\ chip'.iw = "closed" /\ Called("Chip.Close:iw")
       /\ (Called("WatchLineInfo") /\ chip.iw # "none")
             => \A o \in Offsets :
                   chip'.ich[o] = IF o = last'.arg[1] /\ last'.err = Nil
                                  THEN last'.arg[2] ELSE chip.ich[o]]_vars

\* A second line is watched, with the handler of the first still registered.
C32_Witness ==
    /\ last.op = "WatchLineInfo" /\ last.err = Nil /\ last.arg[1] = 1
    /\ chip.ich[0] # NoHandler /\ chip.ich[1] = last.arg[2] /\ chip.iw = "running"

\* C38: the info watcher calls a handler for an offset only while it is the
\* handler registered for the offset: once UnwatchLineInfo has removed it, it
\* is not called.
C38_NoCallAfterUnwatch ==
    [][Called("ich") => chip.ich[last'.arg[1]] = last'.arg[2]]_vars

(***************************************************************************)
(* FindLine.                                                               *)
(***************************************************************************)
\* C39: FindLine leaves no chip open: the chip files open when it returns
\* are those that were open when it was called, whether the line was found
\* or not.
C39_FindLineClosesChips ==
    [][Called("FindLine") => kernel'.chips = kernel.chips]_vars

(***************************************************************************)
(* Requests once more.                                                     *)
(***************************************************************************)
\* C37: a RequestLines that returns an error leaves no descriptor open that
\* the kernel gave it during the call.
C37_FailedRequestLeavesNoFd ==
    [][Called("RequestLines") /\ last'.err # Nil
         => OpenFds(kernel') = OpenFds(kernel)]_vars

\* C34: the handle flags of a configuration carry a direction, a drive or a
\* bias flag only if the configuration marks the field: without the
\* direction bit neither the input nor the output flag, without the drive
\* bit neither open-drain nor open-source, without the bias bit no bias
\* flag, whatever the field holds.
C34_OnlyMarkedFieldsEncoded ==
    last.op = "lineConfigToHandleFlags"
      => LET lc == last.arg[1]
             flags == last.ret
         IN  /\ "Direction" \notin lc.Flags => flags \cap {"Input", "Output"} = {}
             /\ "Drive" \notin lc.Flags => flags \cap {"OpenDrain", "OpenSource"} = {}
             /\ "Bias" \notin lc.Flags
                   => flags \cap {"PullUp", "PullDown", "BiasDisable"} = {}

\* The ABI version the options name, 0 if they name none.
ABIOf(options) ==
    IF Has(options, "WithABI")
    THEN options[CHOOSE i \in 1 .. Len(options) : options[i].opt = "WithABI"].values[1]
    ELSE 0

\* C33: a chip opened with an ABI version has that version, and one opened
\* without has version 2 if the kernel answers the ABI v2 line info query and
\* version 1 if not; the version of the chip never changes; LineInfo and
\* WatchLineInfo issue the call of that version, and RequestLines requests
\* with it, or with the version its own options name.
C33_ChipABI ==
    [][/\ last.op = "NewChip"
             => chip.options.abi = IF ABIOf(last.arg) # 0 THEN ABIOf(last.arg)
                                   ELSE IF kernel.abi = 2 THEN 2 ELSE 1
       /\ chip'.options.abi = chip.options.abi
       /\ (Called("Chip.LineInfo") /\ last'.kcall # "none")
             => last'.kcall = IF chip.options.abi = 1 THEN "GetLineInfo"
                              ELSE "GetLineInfoV2"
       /\ (Called("WatchLineInfo") /\ last'.kcall # "none")
             => last'.kcall = IF chip.options.abi = 1 THEN "WatchLineInfo"
                              ELSE "WatchLineInfoV2"
       /\ (Called("RequestLines") /\ last'.ret # <<>>)
             => LET abi == IF ABIOf(last'.arg) # 0 THEN ABIOf(last'.arg)
                           ELSE chip.options.abi
                IN  /\ last'.ret[1].abi = abi
                    /\ last'.kcall # "none" => (last'.kcall = "GetLine") = (abi = 2)
                    /\ last'.err = Nil => line'.abi = abi]_vars

\* A chip opened without a version on a kernel without ABI v2 has version 1,
\* and a request without a version was made with it.
C33_Witness ==
    /\ kernel.abi = 1 /\ chip.options.abi = 1
    /\ last.op = "RequestLines" /\ last.arg = <<>> /\ last.err = Nil
    /\ line.abi = 1 /\ ~line.closed
\* The values of the last AsOutput option of a call, none when it has none.
OutputValues(options) ==
    LET S == {i \in 1 .. Len(options) : options[i].opt = "AsOutput"}
    IN  IF S = {} THEN <<>> ELSE options[CHOOSE i \in S : \A j \in S : j <= i].values

\* C35: a request of N lines as outputs, made with ABI v2 or as an ABI v1
\* handle request, drives its i-th offset to the i-th initial value given,
\* to inactive where none was given, ignores the values past the N-th, and
\* caches the values given, cut to at most N.
C35_InitialValuesInOffsetOrder ==
    [][Called("RequestLines") /\ last'.err = Nil
         /\ line'.config.Direction = LineDirectionOutput
         => LET vs == OutputValues(last'.arg)
                N == Len(line'.offsets)
            IN  /\ Len(line'.values) <= N
                /\ line'.values = Take(vs, N)
                /\ \A i \in 1 .. N :
                      Active(kernel', line'.offsets[i]) = ValueAt(vs, i)]_vars

\* Lines 1 and 0 were requested in that order with ABI v1 and three values:
\* line 1 is active, line 0 is inactive and two values are cached.
C35_Witness ==
    /\ last.op = "RequestLines" /\ last.err = Nil /\ line # NoLine
    /\ line.abi = 1 /\ line.offsets = <<1, 0>>
    /\ Len(OutputValues(last.arg)) = 3
    /\ line.values = <<1, 0>>
    /\ Active(kernel, 1) = 1 /\ Active(kernel, 0) = 0

\* The request as it would be had it been made with the other ABI version,
\* and the kernel with the descriptor that version gives.
OtherABI(l) == [l EXCEPT !.abi = 3 - @]

OtherKernel(k, fd) ==
    [k EXCEPT !.fds[fd].type = IF @ = "handle" THEN "line" ELSE "handle"]

\* What a caller can tell of a request and of the lines, whatever the ABI.
LineView(l) == [l EXCEPT !.abi = 0]

LinesView(k) ==
    [dir |-> k.dir, level |-> k.level, attr |-> k.attr,
     open |-> [fd \in 1 .. Len(k.fds) |-> k.fds[fd].open]]

SameOutcome(a, b) ==
    a.err = b.err /\ LineView(a.l) = LineView(b.l) /\ LinesView(a.k) = LinesView(b.k)

\* C36: every call of Value, Values, SetValue, SetValues, Reconfigure and
\* Close on a request that is not an event request gives the same result and
\* error, writes the same line values and leaves the same cached
\* configuration and values as the call gives on the same request made with
\* the other ABI version.
C36_SameUnderBothABIs ==
    line # NoLine /\ ~line.isEvent =>
        LET l2 == OtherABI(line)
            k2 == OtherKernel(kernel, line.vfd)
        IN  /\ \A f \in BOOLEAN :
                  IsLine => LET a == Line_Value(line, kernel, f)
                                b == Line_Value(l2, k2, f)
                            IN  a.ret = b.ret /\ a.err = b.err
            /\ \A n \in 0 .. (MaxLines + 1), f \in BOOLEAN :
                  IsLines => LET vs == [i \in 1 .. n |-> Untouched]
                                 a == Lines_Values(line, kernel, vs, f)
                                 b == Lines_Values(l2, k2, vs, f)
                             IN  a.ret = b.ret /\ a.err = b.err
            /\ \A v \in 0 .. 1, f \in BOOLEAN :
                  IsLine => SameOutcome(Line_SetValue(line, kernel, v, f),
                                        Line_SetValue(l2, k2, v, f))
            /\ \A vs \in ValueLists, f \in BOOLEAN :
                  IsLines => SameOutcome(Lines_SetValues(line, kernel, vs, f),
                                         Lines_SetValues(l2, k2, vs, f))
            /\ \A options \in ReconfigOptionLists, f \in BOOLEAN :
                  SameOutcome(baseLine_Reconfigure(line, kernel, options, f),
                              baseLine_Reconfigure(l2, k2, options, f))
            /\ SameOutcome(baseLine_Close(line, watcher, kernel),
                           baseLine_Close(l2, watcher, k2))

====
